---- MODULE Spec2Model ----
(***************************************************************************)
(* A model of the RIFT control plane of rift-python: the per-interface LIE *)
(* adjacency state machine (interface.py), the per-node ZTP level election *)
(* state machine, the self-originated TIEs and the flood queues (node.py). *)
(*                                                                         *)
(* Every Python method is an operator that takes the state of the whole    *)
(* program (a record w with one field per attribute, each a function over  *)
(* the nodes or the interfaces) and returns the state after the call.  An  *)
(* action applies one handler to the current state and commits the result. *)
(***************************************************************************)
EXTENDS Integers, Sequences, FiniteSets, TLC

VARIABLES
    \* ---- Interface attributes, one value per interface
    intf_node,                      \* Interface._node
    local_id,                       \* Interface.local_id
    if_state,                       \* Interface.fsm.state
    neighbor,                       \* Interface.neighbor
    time_ticks_since_lie_received,  \* Interface._time_ticks_since_lie_received
    lie_accept_or_reject,           \* Interface._lie_accept_or_reject
    lie_accept_or_reject_rule,      \* Interface._lie_accept_or_reject_rule
    if_queue,                       \* events queued for Interface.fsm
    if_last,                        \* newest record of Interface.fsm's history
    service_queues_timer,           \* Interface._service_queues_timer is running
    ties_tx,                        \* Interface._ties_tx
    ties_rtx,                       \* Interface._ties_rtx
    ties_req,                       \* Interface._ties_req
    ties_ack,                       \* Interface._ties_ack
    lie_wire,                       \* LIE packets under way to the interface
    link,                           \* the interfaces that hear this one's LIEs
    flood_wire,                     \* TIE, TIDE and TIRE packets under way to the interface
    flood_link,                     \* the interfaces at the neighbor's address and flood port
    rx_fail,                        \* Interface._rx_fail
    tx_fail,                        \* Interface._tx_fail
    \* ---- Node attributes, one value per node
    system_id,                      \* Node.system_id
    configured_level,               \* Node.configured_level
    leaf_only,                      \* Node._leaf_only
    leaf_2_leaf,                    \* Node.leaf_2_leaf
    top_of_fabric_flag,             \* Node._top_of_fabric_flag
    derived_level,                  \* Node._derived_level
    highest_available_level,        \* Node._highest_available_level
    highest_adjacency_three_way,    \* Node.highest_adjacency_three_way
    rx_offers,                      \* Node._rx_offers, in insertion order
    ztp_state,                      \* Node.fsm.state
    ztp_queue,                      \* events queued for Node.fsm
    hold_down_timer,                \* Node._hold_down_timer is running
    my_node_tie_seq_nrs,            \* Node.my_node_tie_seq_nrs
    my_node_ties,                   \* Node.my_node_ties
    ties,                           \* Node.ties
    other_node_ties_at_my_level,    \* Node.other_node_ties_at_my_level
    originating_default,            \* Node._originating_default
    my_south_prefix_tie,            \* Node._my_south_prefix_tie
    last_received_tide_end,         \* Node._last_received_tide_end
    crashed,                        \* an exception left a handler of the node
    \* ---- Arguments and result of a function applied on its own
    fn_in,
    fn_out,
    \* ---- Observer of a link: the interfaces whose timer has expired in this
    \* second, and for each interface the timer expiries since its first LIE
    link_clock,
    \* ---- The attributes of a node that defer its SPF runs (SpecSpf), or its
    \* two RIBs (SpecRib)
    spf

vars == << intf_node, local_id, if_state, neighbor, time_ticks_since_lie_received,
           lie_accept_or_reject, lie_accept_or_reject_rule, if_queue, if_last,
           service_queues_timer, ties_tx, ties_rtx, ties_req, ties_ack, lie_wire,
           link, flood_wire, flood_link, rx_fail, tx_fail,
           system_id, configured_level, leaf_only, leaf_2_leaf, top_of_fabric_flag,
           derived_level, highest_available_level, highest_adjacency_three_way,
           rx_offers, ztp_state, ztp_queue, hold_down_timer, my_node_tie_seq_nrs,
           my_node_ties, ties, other_node_ties_at_my_level, originating_default,
           my_south_prefix_tie, last_received_tide_end, crashed, fn_in, fn_out, link_clock, spf >>

(***************************************************************************)
(* Bounds of the model.                                                    *)
(***************************************************************************)
\* Events from outside (a received LIE, a timer expiry) that a node may have
\* queued and not yet processed.
MaxPending == 1
\* The highest sequence number a self-originated TIE is given.
MaxSeqNr == 3
\* The highest level of an offer or of a LIE given to a function that is
\* applied on its own.
MaxFnLevel == 3
\* The highest sequence number of a TIE header given to
\* compare_tie_header_age applied on its own.
MaxFnSeqNr == 2
\* The highest sequence number of a TIE header that arrives from outside.
MaxFloodSeqNr == 3
\* The longest lifetime of a TIE that arrives while the TIEs age, and the
\* number of seconds for which they age.
MaxAgeLifetime == 2
MaxAgeTicks == 3
\* The ticks of the model in one MIN_SPF_INTERVAL, and the most SPF runs and
\* SPF triggers of a behavior.
SpfIntervalTicks == 3
MaxSpfRuns == 4
MaxSpfTriggers == 6
\* The timer expiries that are counted after the first LIE of an interface.
MaxLinkTicks == 4

(***************************************************************************)
(* Program constants.                                                      *)
(***************************************************************************)
leaf_level == 0
top_of_fabric_level == 24
default_lie_holdtime == 3
default_lifetime == 604800
MY_TIE_NR == 1
UNDEFINED_OR_ANY_POD == 0
get_mtu == 1400
lie_holdtime == 3
RIFT_MAJOR_VERSION == 1
FLUSH_LIFETIME == 60
lifetime_diff2ignore == 300

\* Python's None: for an object, a level, a system or link id, a tick count.
None == [none |-> TRUE]
NoLevel == 0 - 1
NoId == 0 - 1
NoTicks == 0 - 1

ONE_WAY == "ONE_WAY"
TWO_WAY == "TWO_WAY"
THREE_WAY == "THREE_WAY"

UPDATING_CLIENTS == "UPDATING_CLIENTS"
HOLDING_DOWN == "HOLDING_DOWN"
COMPUTE_BEST_OFFER == "COMPUTE_BEST_OFFER"

\* constants.DIR_*: where a neighbor is, seen from this node.
DIR_SOUTH == "South"
DIR_NORTH == "North"
DIR_EAST_WEST == "EastWest"

\* common.ttypes.TieDirectionType: the direction of a TIE.  The program
\* compares these with DIR_SOUTH and DIR_NORTH, to which they are equal.
South == DIR_SOUTH
North == DIR_NORTH

NodeTIEType == "Node"
PrefixTIEType == "Prefix"

(***************************************************************************)
(* The state of the program as one record, and back.                       *)
(***************************************************************************)
World ==
    [ intf_node |-> intf_node, local_id |-> local_id, if_state |-> if_state,
      neighbor |-> neighbor,
      time_ticks_since_lie_received |-> time_ticks_since_lie_received,
      lie_accept_or_reject |-> lie_accept_or_reject,
      lie_accept_or_reject_rule |-> lie_accept_or_reject_rule,
      if_queue |-> if_queue, if_last |-> if_last,
      service_queues_timer |-> service_queues_timer,
      ties_tx |-> ties_tx, ties_rtx |-> ties_rtx, ties_req |-> ties_req,
      ties_ack |-> ties_ack, lie_wire |-> lie_wire,
      link |-> link, flood_wire |-> flood_wire, flood_link |-> flood_link,
      rx_fail |-> rx_fail, tx_fail |-> tx_fail,
      system_id |-> system_id, configured_level |-> configured_level,
      leaf_only |-> leaf_only, leaf_2_leaf |-> leaf_2_leaf,
      top_of_fabric_flag |-> top_of_fabric_flag, derived_level |-> derived_level,
      highest_available_level |-> highest_available_level,
      highest_adjacency_three_way |-> highest_adjacency_three_way,
      rx_offers |-> rx_offers, ztp_state |-> ztp_state, ztp_queue |-> ztp_queue,
      hold_down_timer |-> hold_down_timer,
      my_node_tie_seq_nrs |-> my_node_tie_seq_nrs, my_node_ties |-> my_node_ties,
      ties |-> ties, other_node_ties_at_my_level |-> other_node_ties_at_my_level,
      originating_default |-> originating_default,
      my_south_prefix_tie |-> my_south_prefix_tie,
      last_received_tide_end |-> last_received_tide_end, crashed |-> crashed ]

IsWorld(w) ==
    /\ intf_node = w.intf_node
    /\ local_id = w.local_id
    /\ if_state = w.if_state
    /\ neighbor = w.neighbor
    /\ time_ticks_since_lie_received = w.time_ticks_since_lie_received
    /\ lie_accept_or_reject = w.lie_accept_or_reject
    /\ lie_accept_or_reject_rule = w.lie_accept_or_reject_rule
    /\ if_queue = w.if_queue
    /\ if_last = w.if_last
    /\ service_queues_timer = w.service_queues_timer
    /\ ties_tx = w.ties_tx
    /\ ties_rtx = w.ties_rtx
    /\ ties_req = w.ties_req
    /\ ties_ack = w.ties_ack
    /\ lie_wire = w.lie_wire
    /\ link = w.link
    /\ flood_wire = w.flood_wire
    /\ flood_link = w.flood_link
    /\ rx_fail = w.rx_fail
    /\ tx_fail = w.tx_fail
    /\ system_id = w.system_id
    /\ configured_level = w.configured_level
    /\ leaf_only = w.leaf_only
    /\ leaf_2_leaf = w.leaf_2_leaf
    /\ top_of_fabric_flag = w.top_of_fabric_flag
    /\ derived_level = w.derived_level
    /\ highest_available_level = w.highest_available_level
    /\ highest_adjacency_three_way = w.highest_adjacency_three_way
    /\ rx_offers = w.rx_offers
    /\ ztp_state = w.ztp_state
    /\ ztp_queue = w.ztp_queue
    /\ hold_down_timer = w.hold_down_timer
    /\ my_node_tie_seq_nrs = w.my_node_tie_seq_nrs
    /\ my_node_ties = w.my_node_ties
    /\ ties = w.ties
    /\ other_node_ties_at_my_level = w.other_node_ties_at_my_level
    /\ originating_default = w.originating_default
    /\ my_south_prefix_tie = w.my_south_prefix_tie
    /\ last_received_tide_end = w.last_received_tide_end
    /\ crashed = w.crashed

\* The program's next state is w.
Commit(w) ==
    /\ intf_node' = w.intf_node
    /\ local_id' = w.local_id
    /\ if_state' = w.if_state
    /\ neighbor' = w.neighbor
    /\ time_ticks_since_lie_received' = w.time_ticks_since_lie_received
    /\ lie_accept_or_reject' = w.lie_accept_or_reject
    /\ lie_accept_or_reject_rule' = w.lie_accept_or_reject_rule
    /\ if_queue' = w.if_queue
    /\ if_last' = w.if_last
    /\ service_queues_timer' = w.service_queues_timer
    /\ ties_tx' = w.ties_tx
    /\ ties_rtx' = w.ties_rtx
    /\ ties_req' = w.ties_req
    /\ ties_ack' = w.ties_ack
    /\ lie_wire' = w.lie_wire
    /\ link' = w.link
    /\ flood_wire' = w.flood_wire
    /\ flood_link' = w.flood_link
    /\ rx_fail' = w.rx_fail
    /\ tx_fail' = w.tx_fail
    /\ system_id' = w.system_id
    /\ configured_level' = w.configured_level
    /\ leaf_only' = w.leaf_only
    /\ leaf_2_leaf' = w.leaf_2_leaf
    /\ top_of_fabric_flag' = w.top_of_fabric_flag
    /\ derived_level' = w.derived_level
    /\ highest_available_level' = w.highest_available_level
    /\ highest_adjacency_three_way' = w.highest_adjacency_three_way
    /\ rx_offers' = w.rx_offers
    /\ ztp_state' = w.ztp_state
    /\ ztp_queue' = w.ztp_queue
    /\ hold_down_timer' = w.hold_down_timer
    /\ my_node_tie_seq_nrs' = w.my_node_tie_seq_nrs
    /\ my_node_ties' = w.my_node_ties
    /\ ties' = w.ties
    /\ other_node_ties_at_my_level' = w.other_node_ties_at_my_level
    /\ originating_default' = w.originating_default
    /\ my_south_prefix_tie' = w.my_south_prefix_tie
    /\ last_received_tide_end' = w.last_received_tide_end
    /\ crashed' = w.crashed

Intfs(w) == DOMAIN w.intf_node
Nodes(w) == DOMAIN w.system_id
IntfsOf(w, n) == { i \in Intfs(w) : w.intf_node[i] = n }

\* An exception leaves the handler: the process of node n ends.
Raise(w, n) == [w EXCEPT !.crashed[n] = TRUE]

(***************************************************************************)
(* Events and the queues of the two state machines.  The queue of a state  *)
(* machine is first-in first-out; an event pushed by an action is appended *)
(* behind the events already queued.                                       *)
(***************************************************************************)
Ev(event, data) == [event |-> event, data |-> data]

PushIntf(w, i, event, data) ==
    [w EXCEPT !.if_queue[i] = Append(@, Ev(event, data))]

PushNode(w, n, event, data) ==
    [w EXCEPT !.ztp_queue[n] = Append(@, Ev(event, data))]

(***************************************************************************)
(* Packets and the objects built from them.                                *)
(***************************************************************************)
\* A protocol packet that carries a LIE, with the address it came from.
\* header says whether the packet has a header at all; l2l says whether its
\* capabilities are present and indicate leaf-2-leaf procedures.
LIEPacket(sender, level, lid, nbr_system_id, nbr_link_id, mtu, nazo, l2l) ==
    [ header |-> TRUE, sender |-> sender, level |-> level,
      major_version |-> RIFT_MAJOR_VERSION,
      name |-> "name", local_id |-> lid, flood_port |-> 10001,
      link_mtu_size |-> mtu, nbr_system_id |-> nbr_system_id,
      nbr_link_id |-> nbr_link_id, pod |-> UNDEFINED_OR_ANY_POD, l2l |-> l2l,
      holdtime |-> lie_holdtime, not_a_ztp_offer |-> nazo, address |-> "a" ]

Neighbor(protocol_packet) ==
    [ system_id |-> protocol_packet.sender,
      level |-> protocol_packet.level,
      address |-> protocol_packet.address,
      name |-> protocol_packet.name,
      local_id |-> protocol_packet.local_id,
      flood_port |-> protocol_packet.flood_port,
      neighbor_system_id |-> protocol_packet.nbr_system_id,
      neighbor_link_id |-> protocol_packet.nbr_link_id,
      holdtime |-> protocol_packet.holdtime,
      not_a_ztp_offer |-> protocol_packet.not_a_ztp_offer ]

RxOffer(interface_name, sysid, level, not_a_ztp_offer, state) ==
    [ interface_name |-> interface_name, system_id |-> sysid, level |-> level,
      not_a_ztp_offer |-> not_a_ztp_offer, state |-> state,
      removed |-> FALSE, removed_reason |-> "",
      best |-> FALSE, best_three_way |-> FALSE ]

(***************************************************************************)
(* Node: the level of the node.                                            *)
(***************************************************************************)
level_value(w, n) ==
    IF w.configured_level[n] # NoLevel THEN w.configured_level[n]
    ELSE IF w.top_of_fabric_flag[n] THEN top_of_fabric_level
    ELSE IF w.leaf_only[n] THEN leaf_level
    ELSE w.derived_level[n]

top_of_fabric(w, n) == level_value(w, n) = top_of_fabric_level

zero_touch_provisioning_enabled(w, n) ==
    IF w.configured_level[n] # NoLevel THEN FALSE
    ELSE IF w.top_of_fabric_flag[n] THEN FALSE
    ELSE IF w.leaf_only[n] THEN FALSE
    ELSE TRUE

\* The offers in Node._rx_offers are kept in the order in which their
\* interface names were first inserted; OfferIndex is 0 for a name not in it.
OfferIndex(offers, interface_name) ==
    IF \E k \in 1..Len(offers) : offers[k].interface_name = interface_name
    THEN CHOOSE k \in 1..Len(offers) : offers[k].interface_name = interface_name
    ELSE 0

\* A variant of send_not_a_ztp_offer_on_intf that does not look at the
\* removed flag of the offer.
send_not_a_ztp_offer_on_intf_removed_too(w, n, interface_name) ==
    LET k == OfferIndex(w.rx_offers[n], interface_name) IN
    IF ~zero_touch_provisioning_enabled(w, n) THEN FALSE
    ELSE IF k = 0 THEN FALSE
    ELSE IF w.rx_offers[n][k].level = w.highest_available_level[n] THEN TRUE
    ELSE FALSE

send_not_a_ztp_offer_on_intf(w, n, interface_name) ==
    LET k == OfferIndex(w.rx_offers[n], interface_name) IN
    IF ~zero_touch_provisioning_enabled(w, n) THEN FALSE
    ELSE IF k = 0 THEN FALSE
    ELSE IF w.rx_offers[n][k].removed THEN FALSE
    ELSE IF w.rx_offers[n][k].level = w.highest_available_level[n] THEN TRUE
    ELSE FALSE

(***************************************************************************)
(* Interface: sending a LIE.                                               *)
(***************************************************************************)
\* The packet is handed to every interface on the link unless sending fails.
send_protocol_packet(w, i, protocol_packet) ==
    IF w.tx_fail[i] THEN w
    ELSE [w EXCEPT !.lie_wire =
             [j \in DOMAIN @ |->
                 IF j \in w.link[i] THEN Append(@[j], protocol_packet) ELSE @[j]]]

action_send_lie(w, i) ==
    LET n == w.intf_node[i]
        lie_packet ==
            LIEPacket(w.system_id[n], level_value(w, n), w.local_id[i],
                      IF w.neighbor[i] # None THEN w.neighbor[i].system_id ELSE NoId,
                      IF w.neighbor[i] # None THEN w.neighbor[i].local_id ELSE NoId,
                      get_mtu, send_not_a_ztp_offer_on_intf(w, n, i), TRUE)
    IN  send_protocol_packet(w, i, lie_packet)

action_cleanup(w, i) == [w EXCEPT !.neighbor[i] = None]

(***************************************************************************)
(* Interface: is a received LIE acceptable.                                *)
(***************************************************************************)
is_valid_received_system_id(sysid) == sysid # 0

this_node_is_leaf(w, i) == level_value(w, w.intf_node[i]) = leaf_level

hat_not_greater_remote_level(w, i, remote_level) ==
    IF w.highest_adjacency_three_way[w.intf_node[i]] = NoLevel THEN TRUE
    ELSE w.highest_adjacency_three_way[w.intf_node[i]] <= remote_level

both_nodes_support_leaf_2_leaf(w, i, protocol_packet) ==
    IF ~this_node_is_leaf(w, i) THEN FALSE
    ELSE IF protocol_packet.level # 0 THEN FALSE
    ELSE IF ~w.leaf_2_leaf[w.intf_node[i]] THEN FALSE
    ELSE IF ~protocol_packet.l2l THEN FALSE
    ELSE TRUE

Abs(x) == IF x < 0 THEN -x ELSE x

\* A variant of neither_leaf_and_ldiff_one that lets a level difference of
\* two pass.
neither_leaf_and_ldiff_two(w, i, protocol_packet) ==
    IF this_node_is_leaf(w, i) THEN FALSE
    ELSE IF protocol_packet.level = 0 THEN FALSE
    ELSE IF Abs(protocol_packet.level - level_value(w, w.intf_node[i])) > 2 THEN FALSE
    ELSE TRUE

neither_leaf_and_ldiff_one(w, i, protocol_packet) ==
    IF this_node_is_leaf(w, i) THEN FALSE
    ELSE IF protocol_packet.level = 0 THEN FALSE
    ELSE IF Abs(protocol_packet.level - level_value(w, w.intf_node[i])) > 1 THEN FALSE
    ELSE TRUE

Verdict(accept, rule, offer_to_ztp, warning) ==
    [accept |-> accept, rule |-> rule, offer_to_ztp |-> offer_to_ztp,
     warning |-> warning]

is_received_lie_acceptable(w, i, protocol_packet) ==
    LET n == w.intf_node[i]
        mtu == get_mtu
        pod == UNDEFINED_OR_ANY_POD
    IN
    IF ~protocol_packet.header THEN
        Verdict(FALSE, "Missing header", FALSE, TRUE)
    ELSE IF protocol_packet.major_version # RIFT_MAJOR_VERSION THEN
        Verdict(FALSE, "Different major protocol version", FALSE, TRUE)
    ELSE IF ~is_valid_received_system_id(protocol_packet.sender) THEN
        Verdict(FALSE, "Invalid system ID", FALSE, TRUE)
    ELSE IF w.system_id[n] = protocol_packet.sender THEN
        Verdict(FALSE, "Remote system ID is same as local system ID (loop)", FALSE, FALSE)
    ELSE IF mtu # protocol_packet.link_mtu_size THEN
        Verdict(FALSE, "MTU mismatch", FALSE, TRUE)
    ELSE IF protocol_packet.level = NoLevel THEN
        Verdict(FALSE, "Remote level (in received LIE) is undefined", TRUE, FALSE)
    ELSE IF level_value(w, n) = NoLevel THEN
        Verdict(FALSE, "My level is undefined", TRUE, FALSE)
    ELSE IF /\ pod # UNDEFINED_OR_ANY_POD
            /\ protocol_packet.pod # UNDEFINED_OR_ANY_POD
            /\ pod # protocol_packet.pod THEN
        Verdict(FALSE, "PoD mismatch", TRUE, TRUE)
    ELSE IF mtu # protocol_packet.link_mtu_size THEN
        Verdict(FALSE, "MTU mismatch", TRUE, TRUE)
    ELSE IF this_node_is_leaf(w, i)
            /\ hat_not_greater_remote_level(w, i, protocol_packet.level) THEN
        Verdict(TRUE, "This node is leaf and HAT not greater than remote level", TRUE, FALSE)
    ELSE IF ~this_node_is_leaf(w, i) /\ protocol_packet.level = 0 THEN
        Verdict(TRUE, "This node is not leaf and neighbor is leaf", TRUE, FALSE)
    ELSE IF both_nodes_support_leaf_2_leaf(w, i, protocol_packet) THEN
        Verdict(TRUE, "Both nodes are leaf and support leaf-2-leaf", TRUE, FALSE)
    ELSE IF neither_leaf_and_ldiff_one(w, i, protocol_packet) THEN
        Verdict(TRUE, "Neither node is leaf and level difference is at most one", TRUE, FALSE)
    ELSE Verdict(FALSE, "Level mismatch", TRUE, TRUE)

(***************************************************************************)
(* Node: the offers received from the neighbors (ZTP).                     *)
(***************************************************************************)
\* self._rx_offers[offer.interface_name] = offer: an existing key keeps its
\* place in the order of the dictionary, a new key goes to the end.
PutOffer(offers, offer) ==
    LET k == OfferIndex(offers, offer.interface_name) IN
    IF k = 0 THEN Append(offers, offer) ELSE [offers EXCEPT ![k] = offer]

\* The first part of better_offer: an offer that is removed, or is not a ZTP
\* offer, or is not in state 3-way when that is asked for, is not considered.
Considered(offer, three_way_only) ==
    IF offer # None /\ offer.removed THEN None
    ELSE IF offer # None /\ offer.not_a_ztp_offer THEN None
    ELSE IF three_way_only /\ offer # None /\ offer.state # THREE_WAY THEN None
    ELSE offer

\* The second part of better_offer, on the offers that are considered.
PickOffer(offer1, offer2) ==
    IF offer1 = None THEN offer2
    ELSE IF offer2 = None THEN offer1
    ELSE IF offer1.level > offer2.level THEN offer1
    ELSE IF offer2.level < offer1.level THEN offer2
    ELSE IF offer1.system_id < offer2.system_id THEN offer1
    ELSE offer2

better_offer(offer1, offer2, three_way_only) ==
    PickOffer(Considered(offer1, three_way_only), Considered(offer2, three_way_only))

\* The loop of compare_offers over the first k offers: the best offer so far.
RECURSIVE BestOfFirst(_, _, _)
BestOfFirst(offers, k, three_way_only) ==
    IF k = 0 THEN None
    ELSE better_offer(BestOfFirst(offers, k - 1, three_way_only), offers[k],
                      three_way_only)

\* The level of an offer, None for no offer.
OfferLevel(offer) == IF offer # None THEN offer.level ELSE NoLevel

\* The end of compare_offers: the flags are set, then the events are pushed.
SetFlags(offers, best_offer, best_offer_three_way) ==
    [k \in 1..Len(offers) |->
        [offers[k] EXCEPT
            !.best = (best_offer # None
                      /\ offers[k].interface_name = best_offer.interface_name),
            !.best_three_way =
                (best_offer_three_way # None
                 /\ offers[k].interface_name = best_offer_three_way.interface_name)]]

PushHatChange(w, n, hat) ==
    IF w.highest_adjacency_three_way[n] # hat
    THEN IF hat # NoLevel /\ hat # 0
         THEN PushNode(w, n, "BETTER_HAT", None)
         ELSE PushNode(w, n, "LOST_HAT", None)
    ELSE w

PushHalChange(w, n, hal) ==
    IF w.highest_available_level[n] # hal
    THEN IF hal # NoLevel /\ hal # 0
         THEN PushNode(w, n, "BETTER_HAL", None)
         ELSE PushNode(w, n, "LOST_HAL", None)
    ELSE w

CompareOffersEnd(w, n, best_offer, best_offer_three_way) ==
    PushHatChange(
        PushHalChange(
            [w EXCEPT !.rx_offers[n] = SetFlags(@, best_offer, best_offer_three_way)],
            n, OfferLevel(best_offer)),
        n, OfferLevel(best_offer_three_way))

compare_offers(w, n) ==
    CompareOffersEnd(w, n,
                     BestOfFirst(w.rx_offers[n], Len(w.rx_offers[n]), FALSE),
                     BestOfFirst(w.rx_offers[n], Len(w.rx_offers[n]), TRUE))

\* The offer under the name is in the dictionary and is not removed.
HasLiveOffer(w, n, interface_name) ==
    /\ OfferIndex(w.rx_offers[n], interface_name) # 0
    /\ ~w.rx_offers[n][OfferIndex(w.rx_offers[n], interface_name)].removed

remove_offer(w, n, removed_offer, reason) ==
    IF HasLiveOffer(w, n, removed_offer.interface_name)
    THEN compare_offers(
             [w EXCEPT !.rx_offers[n] =
                 PutOffer(@, [removed_offer EXCEPT !.removed = TRUE,
                                                   !.removed_reason = reason])], n)
    ELSE [w EXCEPT !.rx_offers[n] =
             PutOffer(@, [removed_offer EXCEPT !.removed = TRUE,
                                               !.removed_reason = reason])]

\* The offer stored under the name of the updated offer differs from it in
\* one of the fields that matter; there is an offer under that name.
OfferChanged(old_offer, updated_offer) ==
    \/ old_offer.system_id # updated_offer.system_id
    \/ old_offer.level # updated_offer.level
    \/ old_offer.not_a_ztp_offer # updated_offer.not_a_ztp_offer
    \/ old_offer.state # updated_offer.state

KeepFlags(old_offer, updated_offer) ==
    [updated_offer EXCEPT !.best = old_offer.best,
                          !.best_three_way = old_offer.best_three_way]

update_offer(w, n, updated_offer) ==
    IF OfferIndex(w.rx_offers[n], updated_offer.interface_name) = 0
    THEN compare_offers([w EXCEPT !.rx_offers[n] = PutOffer(@, updated_offer)], n)
    ELSE IF OfferChanged(
                w.rx_offers[n][OfferIndex(w.rx_offers[n], updated_offer.interface_name)],
                updated_offer)
    THEN compare_offers([w EXCEPT !.rx_offers[n] = PutOffer(@, updated_offer)], n)
    ELSE [w EXCEPT !.rx_offers[n] =
             PutOffer(@, KeepFlags(@[OfferIndex(@, updated_offer.interface_name)],
                                   updated_offer))]

MarkExpired(offers, k) ==
    [offers EXCEPT ![k].removed = TRUE, ![k].removed_reason = "Hold-time expired"]

expire_offer(w, n, interface_name) ==
    IF OfferIndex(w.rx_offers[n], interface_name) = 0 THEN w
    ELSE IF HasLiveOffer(w, n, interface_name)
    THEN compare_offers(
             [w EXCEPT !.rx_offers[n] = MarkExpired(@, OfferIndex(@, interface_name))], n)
    ELSE [w EXCEPT !.rx_offers[n] = MarkExpired(@, OfferIndex(@, interface_name))]

\* The last offer of the dictionary that carries the flag, None without one.
LastFlagged(offers, three_way) ==
    LET S == { k \in 1..Len(offers) :
                 IF three_way THEN offers[k].best_three_way ELSE offers[k].best }
    IN  IF S = {} THEN None ELSE offers[CHOOSE k \in S : \A m \in S : m <= k]

level_compute(w, n) ==
    PushNode([w EXCEPT !.highest_available_level[n] =
                           OfferLevel(LastFlagged(w.rx_offers[n], FALSE)),
                       !.highest_adjacency_three_way[n] =
                           OfferLevel(LastFlagged(w.rx_offers[n], TRUE))],
             n, "COMPUTATION_DONE", None)

\* action_update_or_remove_offer that keeps the offer of a leaf.
action_update_or_remove_offer_of_leaf_too(w, n, updated_or_removed_offer) ==
    IF updated_or_removed_offer.not_a_ztp_offer THEN
        remove_offer(w, n, updated_or_removed_offer, "Not a ZTP offer flag set")
    ELSE IF updated_or_removed_offer.level = NoLevel THEN
        remove_offer(w, n, updated_or_removed_offer, "Level is undefined")
    ELSE update_offer(w, n, updated_or_removed_offer)

action_update_or_remove_offer(w, n, updated_or_removed_offer) ==
    IF updated_or_removed_offer.not_a_ztp_offer THEN
        remove_offer(w, n, updated_or_removed_offer, "Not a ZTP offer flag set")
    ELSE IF updated_or_removed_offer.level = NoLevel THEN
        remove_offer(w, n, updated_or_removed_offer, "Level is undefined")
    ELSE IF updated_or_removed_offer.level = leaf_level THEN
        remove_offer(w, n, updated_or_removed_offer, "Level is leaf")
    ELSE update_offer(w, n, updated_or_removed_offer)

action_purge_offers(w, n) ==
    [w EXCEPT !.rx_offers[n] =
        [k \in 1..Len(@) |->
            IF ~@[k].removed
            THEN [@[k] EXCEPT !.removed = TRUE, !.removed_reason = "Purged"]
            ELSE @[k]]]

\* A variant of action_update_all_lie_fsms that derives the level of the best
\* offer itself instead of one level below it.
action_update_all_lie_fsms_same_level(w, n) ==
    [w EXCEPT !.derived_level[n] = w.highest_available_level[n]]

action_update_all_lie_fsms(w, n) ==
    IF w.highest_available_level[n] = NoLevel THEN
        [w EXCEPT !.derived_level[n] = NoLevel]
    ELSE IF w.highest_available_level[n] > 0 THEN
        [w EXCEPT !.derived_level[n] = w.highest_available_level[n] - 1]
    ELSE [w EXCEPT !.derived_level[n] = 0]

any_southbound_adjacencies(w, n) ==
    LET this_node_level == level_value(w, n) IN
    IF this_node_level = NoLevel THEN FALSE
    ELSE \E k \in 1..Len(w.rx_offers[n]) :
            /\ ~w.rx_offers[n][k].removed
            /\ w.rx_offers[n][k].level # NoLevel
            /\ w.rx_offers[n][k].level < this_node_level

\* action_start_timer_on_lost_hal that looks at the removed offers as well.
action_start_timer_on_lost_hal_removed_too(w, n) ==
    IF /\ level_value(w, n) # NoLevel
       /\ \E k \in 1..Len(w.rx_offers[n]) :
             /\ w.rx_offers[n][k].level # NoLevel
             /\ w.rx_offers[n][k].level < level_value(w, n)
    THEN [w EXCEPT !.hold_down_timer[n] = TRUE]
    ELSE PushNode(w, n, "HOLD_DOWN_EXPIRED", None)

action_start_timer_on_lost_hal(w, n) ==
    IF any_southbound_adjacencies(w, n)
    THEN [w EXCEPT !.hold_down_timer[n] = TRUE]
    ELSE PushNode(w, n, "HOLD_DOWN_EXPIRED", None)

action_stop_hold_down_timer(w, n) == [w EXCEPT !.hold_down_timer[n] = FALSE]

(***************************************************************************)
(* Node: the TIE database and the TIEs this node originates.  An interface *)
(* is named by a number; the interfaces of a node are visited in the order *)
(* of their names.  0 stands for "no interface".                           *)
(***************************************************************************)
TIEID(direction, originator, tietype, tie_nr) ==
    [direction |-> direction, originator |-> originator, tietype |-> tietype,
     tie_nr |-> tie_nr]

TIEHeader(tieid, seq_nr, remaining_lifetime) ==
    [tieid |-> tieid, seq_nr |-> seq_nr, remaining_lifetime |-> remaining_lifetime]

\* flags is "none" when the node element has no flags, else "overload" or
\* "no_overload".
make_node_tie_packet(level, direction, originator, tie_nr, seq_nr, lifetime) ==
    [header |-> TIEHeader(TIEID(direction, originator, NodeTIEType, tie_nr),
                          seq_nr, lifetime),
     element |-> [level |-> level, neighbors |-> << >>, flags |-> "none"]]

make_prefix_tie_packet(direction, originator, tie_nr, seq_nr, lifetime) ==
    [header |-> TIEHeader(TIEID(direction, originator, PrefixTIEType, tie_nr),
                          seq_nr, lifetime),
     element |-> [prefixes |-> {}]]

\* The order of the TIE-IDs, which are the keys of the sorted dictionary
\* Node.ties: the fields are compared one after the other, with the
\* directions and the TIE types in the order of their numbers.
tie_id_key(tieid) ==
    << IF tieid.direction = South THEN 1 ELSE 2,
       tieid.originator,
       CASE tieid.tietype = NodeTIEType -> 2
         [] tieid.tietype = PrefixTIEType -> 3
         [] OTHER -> 7,
       tieid.tie_nr >>

tie_id_less(a, b) ==
    \E k \in 1..4 : /\ tie_id_key(a)[k] < tie_id_key(b)[k]
                    /\ \A j \in 1..(k - 1) : tie_id_key(a)[j] = tie_id_key(b)[j]

\* The keys of a sorted dictionary in the order in which it is iterated.
RECURSIVE sorted_tie_ids(_)
sorted_tie_ids(tie_ids) ==
    IF tie_ids = {} THEN << >>
    ELSE << CHOOSE x \in tie_ids : \A y \in tie_ids \ {x} : tie_id_less(x, y) >>
         \o sorted_tie_ids(
                tie_ids \ {CHOOSE x \in tie_ids : \A y \in tie_ids \ {x} : tie_id_less(x, y)})

\* MAX_U64 and MAX_U32 are written as the largest integer of the model
\* checker, which is above every system id and TIE number of the model.
MIN_TIE_ID == TIEID(South, 0, NodeTIEType, 0)

MAX_TIE_ID == TIEID(North, 2147483647, "KeyValue", 2147483647)

store_tie(w, n, tie_packet) ==
    [w EXCEPT !.ties[n] = (tie_packet.header.tieid :> tie_packet) @@ @]

up_interfaces(w, n, interface_going_down) ==
    { i \in IntfsOf(w, n) : w.if_state[i] = THREE_WAY /\ i # interface_going_down }

\* "none" without a neighbor, "raised" when a level that is None is compared.
neighbor_direction(w, i) ==
    LET my_level == level_value(w, w.intf_node[i]) IN
    IF w.neighbor[i] = None THEN "none"
    ELSE IF w.neighbor[i].level = NoLevel \/ my_level = NoLevel THEN "raised"
    ELSE IF w.neighbor[i].level > my_level THEN DIR_NORTH
    ELSE IF w.neighbor[i].level < my_level THEN DIR_SOUTH
    ELSE DIR_EAST_WEST

is_overloaded(w, n) == FALSE

\* The first interface at which the loop of have_s_or_ew_adjacency ends: it
\* returns True there or neighbor_direction raises; 0 if the loop runs out.
SOrEwStop(w, n, interface_going_down) ==
    LET S == { i \in up_interfaces(w, n, interface_going_down) :
                 neighbor_direction(w, i) \in {DIR_SOUTH, DIR_EAST_WEST, "raised"} }
    IN  IF S = {} THEN 0 ELSE CHOOSE i \in S : \A j \in S : i <= j

have_s_or_ew_adjacency(w, n, interface_going_down) ==
    SOrEwStop(w, n, interface_going_down) # 0

have_s_or_ew_adjacency_raises(w, n, interface_going_down) ==
    LET i == SOrEwStop(w, n, interface_going_down) IN
    i # 0 /\ neighbor_direction(w, i) = "raised"

other_nodes_are_overloaded(w, n) ==
    LET others == w.other_node_ties_at_my_level[n] IN
    IF DOMAIN others = {} THEN FALSE
    ELSE ~ \E id \in DOMAIN others : others[id].element.flags = "no_overload"

other_nodes_have_no_n_adjacency(w, n) ==
    LET others == w.other_node_ties_at_my_level[n] IN
    IF DOMAIN others = {} THEN FALSE
    ELSE \A id \in DOMAIN others :
            \A s \in DOMAIN others[id].element.neighbors :
                ~(others[id].element.neighbors[s].level > level_value(w, n))

\* The comparison of a neighbor's level with a level of this node that is None.
other_nodes_have_no_n_adjacency_raises(w, n) ==
    LET others == w.other_node_ties_at_my_level[n] IN
    /\ level_value(w, n) = NoLevel
    /\ \E id \in DOMAIN others : DOMAIN others[id].element.neighbors # {}

have_n_spf_route_to_default(w, n) == TRUE

RECURSIVE store_tie_in_db(_, _, _)
RECURSIVE regenerate_my_south_prefix_tie(_, _, _)

store_tie_in_db(w, n, tie) ==
    LET w1 == store_tie(w, n, tie) IN
    IF tie.header.tieid.tietype = NodeTIEType
       /\ tie.element.level = level_value(w, n)
    THEN regenerate_my_south_prefix_tie(
             [w1 EXCEPT !.other_node_ties_at_my_level[n] =
                            (tie.header.tieid :> tie) @@ @], n, 0)
    ELSE w1

\* (must_originate_default, reason): the decision of
\* regenerate_my_south_prefix_tie.
MustOriginateDefault(w, n, interface_going_down) ==
    IF is_overloaded(w, n) THEN FALSE
    ELSE IF ~have_s_or_ew_adjacency(w, n, interface_going_down) THEN FALSE
    ELSE IF other_nodes_are_overloaded(w, n) THEN TRUE
    ELSE IF other_nodes_have_no_n_adjacency(w, n) THEN TRUE
    ELSE have_n_spf_route_to_default(w, n)

\* An exception leaves the decision.
DecisionRaises(w, n, interface_going_down) ==
    \/ have_s_or_ew_adjacency_raises(w, n, interface_going_down)
    \/ /\ have_s_or_ew_adjacency(w, n, interface_going_down)
       /\ ~other_nodes_are_overloaded(w, n)
       /\ other_nodes_have_no_n_adjacency_raises(w, n)

SouthPrefixTie(sysid, seq_nr, must_originate_default) ==
    [make_prefix_tie_packet(South, sysid, MY_TIE_NR, seq_nr, default_lifetime)
        EXCEPT !.element.prefixes =
                   IF must_originate_default THEN {"0.0.0.0/0", "::0/0"} ELSE {}]

NextSouthPrefixTie(w, n, must_originate_default) ==
    SouthPrefixTie(w.system_id[n],
                   IF w.my_south_prefix_tie[n] = None THEN 1
                   ELSE w.my_south_prefix_tie[n].header.seq_nr + 1,
                   must_originate_default)

StoreSouthPrefixTie(w, n, must_originate_default, tie) ==
    store_tie_in_db([w EXCEPT !.originating_default[n] = must_originate_default,
                              !.my_south_prefix_tie[n] = tie], n, tie)

\* SouthPrefixDecided that leaves the old TIE in place when the node stops
\* originating the default route.
SouthPrefixDecidedWithoutFlush(w, n, must_originate_default) ==
    IF ~must_originate_default THEN w
    ELSE IF must_originate_default # w.originating_default[n]
            \/ w.my_south_prefix_tie[n] = None
    THEN StoreSouthPrefixTie(w, n, must_originate_default,
                             NextSouthPrefixTie(w, n, must_originate_default))
    ELSE w

SouthPrefixDecided(w, n, must_originate_default) ==
    IF ~must_originate_default /\ w.my_south_prefix_tie[n] = None THEN w
    ELSE IF must_originate_default # w.originating_default[n]
            \/ w.my_south_prefix_tie[n] = None
    THEN StoreSouthPrefixTie(w, n, must_originate_default,
                             NextSouthPrefixTie(w, n, must_originate_default))
    ELSE w

regenerate_my_south_prefix_tie(w, n, interface_going_down) ==
    IF DecisionRaises(w, n, interface_going_down) THEN Raise(w, n)
    ELSE SouthPrefixDecided(w, n, MustOriginateDefault(w, n, interface_going_down))

\* The neighbors element of the node TIE: one entry per neighbor system, with
\* the level seen on the first interface to it and the link ids of all of them.
\* The neighbors of a node TIE with the link of the first interface only.
NodeTieNeighborsFirstLink(w, n, interface_going_down) ==
    LET up == up_interfaces(w, n, interface_going_down)
        first(sid) == CHOOSE i \in up :
                        /\ w.neighbor[i].system_id = sid
                        /\ \A j \in up : w.neighbor[j].system_id = sid => i <= j
    IN  [sid \in { w.neighbor[i].system_id : i \in up } |->
            [level |-> w.neighbor[first(sid)].level,
             cost |-> 1,
             link_ids |-> { <<w.local_id[first(sid)], w.neighbor[first(sid)].local_id>> },
             bandwidth |-> 100]]

NodeTieNeighbors(w, n, interface_going_down) ==
    LET up == up_interfaces(w, n, interface_going_down)
        first(sid) == CHOOSE i \in up :
                        /\ w.neighbor[i].system_id = sid
                        /\ \A j \in up : w.neighbor[j].system_id = sid => i <= j
    IN  [sid \in { w.neighbor[i].system_id : i \in up } |->
            [level |-> w.neighbor[first(sid)].level,
             cost |-> 1,
             link_ids |-> { <<w.local_id[j], w.neighbor[j].local_id>> :
                              j \in { k \in up : w.neighbor[k].system_id = sid } },
             bandwidth |-> 100]]

NodeTie(w, n, direction, interface_going_down) ==
    [make_node_tie_packet(level_value(w, n), direction, w.system_id[n], MY_TIE_NR,
                          w.my_node_tie_seq_nrs[n][direction] + 1, default_lifetime)
        EXCEPT !.element.neighbors = NodeTieNeighbors(w, n, interface_going_down)]

StoreNodeTie(w, n, direction, node_tie_packet) ==
    store_tie_in_db([w EXCEPT !.my_node_tie_seq_nrs[n][direction] = @ + 1,
                              !.my_node_ties[n][direction] = node_tie_packet],
                    n, node_tie_packet)

regenerate_node_tie(w, n, direction, interface_going_down) ==
    IF \E i \in up_interfaces(w, n, interface_going_down) : w.neighbor[i] = None
    THEN Raise(w, n)
    ELSE StoreNodeTie(w, n, direction, NodeTie(w, n, direction, interface_going_down))

regenerate_my_node_ties(w, n, interface_going_down) ==
    regenerate_node_tie(regenerate_node_tie(w, n, South, interface_going_down),
                        n, North, interface_going_down)

find_tie(w, n, tie_id) ==
    IF tie_id \in DOMAIN w.ties[n] THEN w.ties[n][tie_id] ELSE None

tie_originator_level(w, n, tie_header) ==
    IF find_tie(w, n, tie_header.tieid) = None THEN NoLevel
    ELSE find_tie(w, n, tie_header.tieid).element.level

\* is_flood_allowed that lets a Node S-TIE go north from the level of its
\* originator as well.
is_flood_allowed_north_at_same_level(w, n, tie_header, to_node_direction, to_node_system_id, from_node_system_id, from_node_level, from_node_is_top_of_fabric) ==
    IF tie_header.tieid.direction = DIR_SOUTH THEN
        IF tie_header.tieid.tietype = NodeTIEType THEN
            CASE to_node_direction = DIR_SOUTH ->
                    tie_originator_level(w, n, tie_header) = from_node_level
              [] to_node_direction = DIR_NORTH ->
                    /\ tie_originator_level(w, n, tie_header) # NoLevel
                    /\ tie_originator_level(w, n, tie_header) >= from_node_level
              [] to_node_direction = DIR_EAST_WEST -> ~from_node_is_top_of_fabric
              [] OTHER -> FALSE
        ELSE
            CASE to_node_direction = DIR_SOUTH ->
                    tie_header.tieid.originator = from_node_system_id
              [] to_node_direction = DIR_NORTH ->
                    to_node_system_id = tie_header.tieid.originator
              [] to_node_direction = DIR_EAST_WEST ->
                    /\ ~from_node_is_top_of_fabric
                    /\ tie_header.tieid.originator = from_node_system_id
              [] OTHER -> FALSE
    ELSE
        CASE to_node_direction = DIR_SOUTH -> FALSE
          [] to_node_direction = DIR_NORTH -> TRUE
          [] to_node_direction = DIR_EAST_WEST -> from_node_is_top_of_fabric
          [] OTHER -> FALSE

is_flood_allowed(w, n, tie_header, to_node_direction, to_node_system_id, from_node_system_id, from_node_level, from_node_is_top_of_fabric) ==
    IF tie_header.tieid.direction = DIR_SOUTH THEN
        IF tie_header.tieid.tietype = NodeTIEType THEN
            CASE to_node_direction = DIR_SOUTH ->
                    tie_originator_level(w, n, tie_header) = from_node_level
              [] to_node_direction = DIR_NORTH ->
                    /\ tie_originator_level(w, n, tie_header) # NoLevel
                    /\ tie_originator_level(w, n, tie_header) > from_node_level
              [] to_node_direction = DIR_EAST_WEST -> ~from_node_is_top_of_fabric
              [] OTHER -> FALSE
        ELSE
            CASE to_node_direction = DIR_SOUTH ->
                    tie_header.tieid.originator = from_node_system_id
              [] to_node_direction = DIR_NORTH ->
                    to_node_system_id = tie_header.tieid.originator
              [] to_node_direction = DIR_EAST_WEST ->
                    /\ ~from_node_is_top_of_fabric
                    /\ tie_header.tieid.originator = from_node_system_id
              [] OTHER -> FALSE
    ELSE
        CASE to_node_direction = DIR_SOUTH -> FALSE
          [] to_node_direction = DIR_NORTH -> TRUE
          [] to_node_direction = DIR_EAST_WEST -> from_node_is_top_of_fabric
          [] OTHER -> FALSE

flood_allowed_from_nbr_to_node(w, n, tie_header, nbr_direction, neighbor_system_id, neighbor_level, neighbor_is_top_of_fabric, node_system_id) ==
    is_flood_allowed(w, n, tie_header,
                     IF nbr_direction = DIR_SOUTH THEN DIR_NORTH
                     ELSE IF nbr_direction = DIR_NORTH THEN DIR_SOUTH
                     ELSE nbr_direction,
                     node_system_id, neighbor_system_id, neighbor_level,
                     neighbor_is_top_of_fabric)

\* Neighbor.top_of_fabric()
neighbor_top_of_fabric(nbr) == nbr.level = top_of_fabric_level

(***************************************************************************)
(* Node: the TIDE packet for a neighbor.                                   *)
(***************************************************************************)
flood_allowed_from_node_to_nbr(w, n, tie_header, nbr_direction, neighbor_system_id, node_system_id, node_level, node_is_top_of_fabric) ==
    is_flood_allowed(w, n, tie_header, nbr_direction, neighbor_system_id, node_system_id,
                     node_level, node_is_top_of_fabric)

\* generate_tide_packet that lists only what this node may flood.
generate_tide_packet_to_nbr_only(w, n, nbr_direction, neighbor_system_id, neighbor_level, neighbor_is_top_of_fabric, my_level, i_am_top_of_fabric) ==
    [ start_range |-> MIN_TIE_ID,
      end_range |-> MAX_TIE_ID,
      headers |->
          SelectSeq([k \in 1..Cardinality(DOMAIN w.ties[n]) |->
                        w.ties[n][sorted_tie_ids(DOMAIN w.ties[n])[k]].header],
                    LAMBDA tie_header :
                        flood_allowed_from_node_to_nbr(
                            w, n, tie_header, nbr_direction, neighbor_system_id,
                            w.system_id[n], my_level, i_am_top_of_fabric)) ]

generate_tide_packet(w, n, nbr_direction, neighbor_system_id, neighbor_level, neighbor_is_top_of_fabric, my_level, i_am_top_of_fabric) ==
    [ start_range |-> MIN_TIE_ID,
      end_range |-> MAX_TIE_ID,
      headers |->
          SelectSeq([k \in 1..Cardinality(DOMAIN w.ties[n]) |->
                        w.ties[n][sorted_tie_ids(DOMAIN w.ties[n])[k]].header],
                    LAMBDA tie_header :
                        \/ flood_allowed_from_node_to_nbr(
                               w, n, tie_header, nbr_direction, neighbor_system_id,
                               w.system_id[n], my_level, i_am_top_of_fabric)
                        \/ flood_allowed_from_nbr_to_node(
                               w, n, tie_header, nbr_direction, neighbor_system_id,
                               neighbor_level, neighbor_is_top_of_fabric,
                               w.system_id[n])) ]

(***************************************************************************)
(* Node: sending a TIDE on an interface.  The TIDE reaches the interfaces  *)
(* at the neighbor's address and flood port that are part of the model.    *)
(***************************************************************************)
ProtocolPacket(sender, tie, tide, tire) ==
    [sender |-> sender, major_version |-> RIFT_MAJOR_VERSION, tie |-> tie, tide |-> tide,
     tire |-> tire]

\* send_protocol_packet with flood=True.
send_flood_packet(w, i, protocol_packet) ==
    IF w.tx_fail[i] THEN w
    ELSE [w EXCEPT !.flood_wire =
             [j \in DOMAIN @ |->
                 IF j \in w.flood_link[i] THEN Append(@[j], protocol_packet) ELSE @[j]]]

send_tides_on_interface(w, n, i) ==
    IF w.if_state[i] # THREE_WAY THEN w
    ELSE IF neighbor_direction(w, i) = "raised" THEN Raise(w, n)
    ELSE IF w.neighbor[i] = None THEN Raise(w, n)
    ELSE IF w.flood_link[i] = {} THEN w
    ELSE send_flood_packet(
             w, i,
             ProtocolPacket(w.system_id[n], None,
                            generate_tide_packet(w, n, neighbor_direction(w, i),
                                                 w.neighbor[i].system_id, w.neighbor[i].level,
                                                 neighbor_top_of_fabric(w.neighbor[i]),
                                                 level_value(w, n), top_of_fabric(w, n)),
                            None))

RECURSIVE SendTidesOn(_, _, _)
SendTidesOn(w, n, intfs) ==
    IF intfs = {} \/ w.crashed[n] THEN w
    ELSE LET i == CHOOSE i \in intfs : \A j \in intfs : i <= j
         IN  SendTidesOn(send_tides_on_interface(w, n, i), n, intfs \ {i})

\* The send TIDEs timer of the node expires.
send_tides(w, n) == SendTidesOn(w, n, IntfsOf(w, n))

(***************************************************************************)
(* Interface: the actions of the LIE state machine.                        *)
(***************************************************************************)
\* clear_all_queues that leaves the acknowledgements.
clear_all_queues_but_ack(w, i) ==
    [w EXCEPT !.ties_tx[i] = << >>, !.ties_rtx[i] = << >>, !.ties_req[i] = << >>]

clear_all_queues(w, i) ==
    [w EXCEPT !.ties_tx[i] = << >>, !.ties_rtx[i] = << >>,
              !.ties_req[i] = << >>, !.ties_ack[i] = << >>]

action_start_flooding(w, i) ==
    IF w.neighbor[i] = None THEN Raise(w, w.intf_node[i])
    ELSE send_tides_on_interface(
             regenerate_my_south_prefix_tie(
                 regenerate_my_node_ties(
                     [w EXCEPT !.service_queues_timer[i] = TRUE], w.intf_node[i], 0),
                 w.intf_node[i], 0),
             w.intf_node[i], i)

action_stop_flooding(w, i) ==
    regenerate_my_south_prefix_tie(
        regenerate_my_node_ties(
            clear_all_queues([w EXCEPT !.service_queues_timer[i] = FALSE], i),
            w.intf_node[i], i),
        w.intf_node[i], i)

check_reflection(w, i) ==
    IF w.neighbor[i].neighbor_system_id # w.system_id[w.intf_node[i]] THEN FALSE
    ELSE IF w.neighbor[i].neighbor_link_id # w.local_id[i] THEN FALSE
    ELSE TRUE

check_three_way(w, i) ==
    IF w.if_state[i] = ONE_WAY THEN w
    ELSE IF w.if_state[i] = TWO_WAY THEN
        IF w.neighbor[i].neighbor_system_id = NoId THEN w
        ELSE IF check_reflection(w, i) THEN PushIntf(w, i, "VALID_REFLECTION", None)
        ELSE PushIntf(w, i, "MULTIPLE_NEIGHBORS", None)
    ELSE
        IF w.neighbor[i].neighbor_system_id = NoId
        THEN PushIntf(w, i, "NEIGHBOR_DROPPED_REFLECTION", None)
        ELSE IF check_reflection(w, i) THEN w
        ELSE PushIntf(w, i, "MULTIPLE_NEIGHBORS", None)

check_minor_change(w, i, new_neighbor) ==
    IF new_neighbor.flood_port # w.neighbor[i].flood_port THEN TRUE
    ELSE IF new_neighbor.name # w.neighbor[i].name THEN TRUE
    ELSE IF new_neighbor.local_id # w.neighbor[i].local_id THEN TRUE
    ELSE FALSE

send_offer_to_ztp_fsm(w, i, offering_neighbor) ==
    PushNode(w, w.intf_node[i], "NEIGHBOR_OFFER",
             RxOffer(i, offering_neighbor.system_id, offering_neighbor.level,
                     offering_neighbor.not_a_ztp_offer, w.if_state[i]))

\* action_process_lie from the verdict on: w is the state with the tick count
\* reset and the verdict recorded.
ProcessRejected(w, i, new_neighbor, offer_to_ztp) ==
    IF offer_to_ztp
    THEN PushIntf(send_offer_to_ztp_fsm(action_cleanup(w, i), i, new_neighbor),
                  i, "UNACCEPTABLE_HEADER", None)
    ELSE action_cleanup(w, i)

\* w is the state after the offer was sent to the ZTP state machine.
ProcessAccepted(w, i, new_neighbor) ==
    IF w.neighbor[i] = None THEN
        check_three_way(
            PushIntf([w EXCEPT !.neighbor[i] = new_neighbor], i, "NEW_NEIGHBOR", None), i)
    ELSE IF new_neighbor.system_id # w.neighbor[i].system_id THEN
        PushIntf(w, i, "MULTIPLE_NEIGHBORS", None)
    ELSE IF new_neighbor.level # w.neighbor[i].level THEN
        PushIntf(w, i, "NEIGHBOR_CHANGED_LEVEL", None)
    ELSE IF new_neighbor.address # w.neighbor[i].address THEN
        PushIntf(w, i, "NEIGHBOR_CHANGED_ADDRESS", None)
    ELSE IF check_minor_change(w, i, new_neighbor) THEN
        check_three_way(
            [PushIntf(w, i, "NEIGHBOR_CHANGED_MINOR_FIELDS", None)
                EXCEPT !.neighbor[i] = new_neighbor], i)
    ELSE check_three_way([w EXCEPT !.neighbor[i] = new_neighbor], i)

ProcessVerdict(w, i, new_neighbor, verdict) ==
    IF ~verdict.accept
    THEN ProcessRejected([w EXCEPT !.lie_accept_or_reject[i] = "Rejected",
                                   !.lie_accept_or_reject_rule[i] = verdict.rule],
                         i, new_neighbor, verdict.offer_to_ztp)
    ELSE ProcessAccepted(
             send_offer_to_ztp_fsm(
                 [w EXCEPT !.lie_accept_or_reject[i] = "Accepted",
                           !.lie_accept_or_reject_rule[i] = verdict.rule],
                 i, new_neighbor),
             i, new_neighbor)

action_process_lie(w, i, protocol_packet) ==
    ProcessVerdict([w EXCEPT !.time_ticks_since_lie_received[i] = 0], i,
                   Neighbor(protocol_packet),
                   is_received_lie_acceptable(w, i, protocol_packet))

\* A variant of HoldTime: the hold time is one tick.
HoldTime_one_tick(w, i) == 1

\* The hold time that action_check_hold_time_expired compares the ticks with.
HoldTime(w, i) ==
    IF w.neighbor[i] # None /\ w.neighbor[i].holdtime # 0
    THEN w.neighbor[i].holdtime
    ELSE default_lie_holdtime

action_check_hold_time_expired(w, i) ==
    IF w.time_ticks_since_lie_received[i] = NoTicks THEN w
    ELSE IF w.time_ticks_since_lie_received[i] + 1 >= HoldTime(w, i)
    THEN PushIntf([w EXCEPT !.time_ticks_since_lie_received[i] = @ + 1],
                  i, "HOLD_TIME_EXPIRED", None)
    ELSE [w EXCEPT !.time_ticks_since_lie_received[i] = @ + 1]

action_hold_time_expired(w, i) == expire_offer(w, w.intf_node[i], i)

(***************************************************************************)
(* The LIE state machine of an interface: its transition table and the     *)
(* processing of the event at the head of its queue.                       *)
(*                                                                         *)
(* A transition runs its actions, then pushes its events, then changes the *)
(* state.  On a change to a different state the exit actions of the old    *)
(* state run before the state is set and the entry actions of the new      *)
(* state after.  An event without a transition in the state is dropped.    *)
(***************************************************************************)
Transition(to_state, actions, push_events) ==
    [to_state |-> to_state, actions |-> actions, push_events |-> push_events]

NoTransition == Transition("", << >>, << >>)

\* to_state "None" keeps the state.
state_one_way_transitions(event) ==
    CASE event = "TIMER_TICK" -> Transition("None", << >>, <<"SEND_LIE">>)
      [] event = "LEVEL_CHANGED" ->
            Transition(ONE_WAY, <<"action_update_level">>, <<"SEND_LIE">>)
      [] event = "HAL_CHANGED" -> Transition("None", <<"action_store_hal">>, << >>)
      [] event = "HAT_CHANGED" -> Transition("None", <<"action_store_hat">>, << >>)
      [] event = "HALS_CHANGED" -> Transition("None", <<"action_store_hals">>, << >>)
      [] event = "LIE_RECEIVED" -> Transition("None", <<"action_process_lie">>, << >>)
      [] event = "NEW_NEIGHBOR" -> Transition(TWO_WAY, << >>, <<"SEND_LIE">>)
      [] event = "UNACCEPTABLE_HEADER" -> Transition(ONE_WAY, << >>, << >>)
      [] event = "HOLD_TIME_EXPIRED" ->
            Transition("None", <<"action_hold_time_expired">>, << >>)
      [] event = "SEND_LIE" -> Transition("None", <<"action_send_lie">>, << >>)
      [] OTHER -> NoTransition

state_two_way_transitions(event) ==
    CASE event = "TIMER_TICK" ->
            Transition("None", <<"action_check_hold_time_expired">>, <<"SEND_LIE">>)
      [] event = "LEVEL_CHANGED" -> Transition(ONE_WAY, <<"action_update_level">>, << >>)
      [] event = "HAL_CHANGED" -> Transition("None", <<"action_store_hal">>, << >>)
      [] event = "HAT_CHANGED" -> Transition("None", <<"action_store_hat">>, << >>)
      [] event = "HALS_CHANGED" -> Transition("None", <<"action_store_hals">>, << >>)
      [] event = "LIE_RECEIVED" -> Transition("None", <<"action_process_lie">>, << >>)
      [] event = "VALID_REFLECTION" -> Transition(THREE_WAY, << >>, << >>)
      [] event = "NEIGHBOR_CHANGED_LEVEL" -> Transition(ONE_WAY, << >>, << >>)
      [] event = "NEIGHBOR_CHANGED_ADDRESS" -> Transition(ONE_WAY, << >>, << >>)
      [] event = "UNACCEPTABLE_HEADER" -> Transition(ONE_WAY, << >>, << >>)
      [] event = "HOLD_TIME_EXPIRED" ->
            Transition(ONE_WAY, <<"action_hold_time_expired">>, << >>)
      [] event = "MULTIPLE_NEIGHBORS" -> Transition(ONE_WAY, << >>, << >>)
      [] event = "LIE_CORRUPT" -> Transition(ONE_WAY, << >>, << >>)
      [] event = "SEND_LIE" -> Transition("None", <<"action_send_lie">>, << >>)
      [] OTHER -> NoTransition

state_three_way_transitions(event) ==
    CASE event = "TIMER_TICK" ->
            Transition("None", <<"action_check_hold_time_expired">>, <<"SEND_LIE">>)
      [] event = "LEVEL_CHANGED" -> Transition(ONE_WAY, <<"action_update_level">>, << >>)
      [] event = "HAL_CHANGED" -> Transition("None", <<"action_store_hal">>, << >>)
      [] event = "HAT_CHANGED" -> Transition("None", <<"action_store_hat">>, << >>)
      [] event = "HALS_CHANGED" -> Transition("None", <<"action_store_hals">>, << >>)
      [] event = "LIE_RECEIVED" -> Transition("None", <<"action_process_lie">>, << >>)
      [] event = "NEIGHBOR_DROPPED_REFLECTION" -> Transition(TWO_WAY, << >>, << >>)
      [] event = "NEIGHBOR_CHANGED_LEVEL" -> Transition(ONE_WAY, << >>, << >>)
      [] event = "NEIGHBOR_CHANGED_ADDRESS" -> Transition(ONE_WAY, << >>, << >>)
      [] event = "UNACCEPTABLE_HEADER" -> Transition(ONE_WAY, << >>, << >>)
      [] event = "HOLD_TIME_EXPIRED" ->
            Transition(ONE_WAY, <<"action_hold_time_expired">>, << >>)
      [] event = "MULTIPLE_NEIGHBORS" -> Transition(ONE_WAY, << >>, << >>)
      [] event = "LIE_CORRUPT" -> Transition(ONE_WAY, << >>, << >>)
      [] event = "SEND_LIE" -> Transition("None", <<"action_send_lie">>, << >>)
      [] OTHER -> NoTransition

intf_transitions(state, event) ==
    CASE state = ONE_WAY -> state_one_way_transitions(event)
      [] state = TWO_WAY -> state_two_way_transitions(event)
      [] state = THREE_WAY -> state_three_way_transitions(event)

\* _state_actions: the entry and the exit actions of a state.
intf_state_entry_actions(state) ==
    CASE state = ONE_WAY -> <<"action_cleanup", "action_send_lie">>
      [] state = THREE_WAY -> <<"action_start_flooding">>
      [] OTHER -> << >>

intf_state_exit_actions(state) ==
    CASE state = THREE_WAY -> <<"action_stop_flooding">>
      [] OTHER -> << >>

IntfAction(w, i, action, event_data) ==
    CASE action = "action_process_lie" -> action_process_lie(w, i, event_data)
      [] action = "action_send_lie" -> action_send_lie(w, i)
      [] action = "action_cleanup" -> action_cleanup(w, i)
      [] action = "action_check_hold_time_expired" -> action_check_hold_time_expired(w, i)
      [] action = "action_hold_time_expired" -> action_hold_time_expired(w, i)
      [] action = "action_start_flooding" -> action_start_flooding(w, i)
      [] action = "action_stop_flooding" -> action_stop_flooding(w, i)
      [] OTHER -> w

RECURSIVE IntfInvokeActions(_, _, _, _)
IntfInvokeActions(w, i, actions, event_data) ==
    IF actions = << >> THEN w
    ELSE IntfInvokeActions(IntfAction(w, i, Head(actions), event_data), i,
                           Tail(actions), event_data)

RECURSIVE IntfPushEvents(_, _, _)
IntfPushEvents(w, i, events) ==
    IF events = << >> THEN w
    ELSE IntfPushEvents(PushIntf(w, i, Head(events), None), i, Tail(events))

\* The newest record of the history of the state machine.
IntfRecord(w, i, event, from_state, to_state) ==
    [w EXCEPT !.if_last[i] =
        [event |-> event, from_state |-> from_state, to_state |-> to_state]]

\* The change of state that ends a transition; w is the state after the
\* actions and the pushed events of the transition.
IntfChangeState(w, i, to_state) ==
    IF to_state = "None" \/ to_state = w.if_state[i] THEN w
    ELSE IntfInvokeActions(
             [IntfInvokeActions(w, i, intf_state_exit_actions(w.if_state[i]), None)
                 EXCEPT !.if_state[i] = to_state],
             i, intf_state_entry_actions(to_state), None)

IntfTransit(w, i, ev, from_state, transition) ==
    IF transition = NoTransition THEN w
    ELSE IntfRecord(
             IntfChangeState(
                 IntfPushEvents(
                     IntfInvokeActions(w, i, transition.actions, ev.data),
                     i, transition.push_events),
                 i, transition.to_state),
             i, ev.event, from_state,
             IF transition.to_state = "None" THEN from_state ELSE transition.to_state)

intf_process_next_event(w, i) ==
    IntfTransit([w EXCEPT !.if_queue[i] = Tail(@)], i, Head(w.if_queue[i]),
                w.if_state[i], intf_transitions(w.if_state[i], Head(w.if_queue[i]).event))

(***************************************************************************)
(* The ZTP state machine of a node.                                        *)
(***************************************************************************)
\* A level symbol of the configuration: one of the four words, or a number.
LevelWord(word) == [word |-> word, value |-> 0]
LevelInt(value) == [word |-> "int", value |-> value]

\* (configured_level, leaf_only, leaf_2_leaf, top_of_fabric_flag)
parse_level_symbol(level_symbol) ==
    IF level_symbol.word = "undefined" THEN <<NoLevel, FALSE, FALSE, FALSE>>
    ELSE IF level_symbol.word = "leaf" THEN <<NoLevel, TRUE, FALSE, FALSE>>
    ELSE IF level_symbol.word = "leaf-2-leaf" THEN <<NoLevel, TRUE, TRUE, FALSE>>
    ELSE IF level_symbol.word = "top-of-fabric" THEN <<NoLevel, FALSE, FALSE, TRUE>>
    ELSE <<level_symbol.value, level_symbol.value = 0, FALSE, TRUE>>

action_store_level(w, n, level_symbol) ==
    LET parse_result == parse_level_symbol(level_symbol) IN
    [w EXCEPT !.configured_level[n] = parse_result[1],
              !.leaf_only[n] = parse_result[2],
              !.leaf_2_leaf[n] = parse_result[3],
              !.top_of_fabric_flag[n] = parse_result[4]]

state_updating_clients_transitions(event) ==
    CASE event = "CHANGE_LOCAL_CONFIGURED_LEVEL" ->
            Transition(COMPUTE_BEST_OFFER, <<"action_store_level">>, << >>)
      [] event = "NEIGHBOR_OFFER" ->
            Transition("None", <<"action_update_or_remove_offer">>, << >>)
      [] event = "BETTER_HAL" -> Transition(COMPUTE_BEST_OFFER, << >>, << >>)
      [] event = "BETTER_HAT" -> Transition(COMPUTE_BEST_OFFER, << >>, << >>)
      [] event = "LOST_HAL" ->
            Transition(HOLDING_DOWN, <<"action_start_timer_on_lost_hal">>, << >>)
      [] event = "LOST_HAT" -> Transition(COMPUTE_BEST_OFFER, << >>, << >>)
      [] OTHER -> NoTransition

state_holding_down_transitions(event) ==
    CASE event = "CHANGE_LOCAL_CONFIGURED_LEVEL" ->
            Transition(COMPUTE_BEST_OFFER, <<"action_store_level">>, << >>)
      [] event = "NEIGHBOR_OFFER" ->
            Transition("None", <<"action_update_or_remove_offer">>, << >>)
      [] event = "BETTER_HAL" -> Transition("None", << >>, << >>)
      [] event = "BETTER_HAT" -> Transition("None", << >>, << >>)
      [] event = "LOST_HAL" -> Transition("None", << >>, << >>)
      [] event = "LOST_HAT" -> Transition("None", << >>, << >>)
      [] event = "COMPUTATION_DONE" -> Transition("None", << >>, << >>)
      [] event = "HOLD_DOWN_EXPIRED" ->
            Transition(COMPUTE_BEST_OFFER, <<"action_purge_offers">>, << >>)
      [] OTHER -> NoTransition

state_compute_best_offer_transitions(event) ==
    CASE event = "CHANGE_LOCAL_CONFIGURED_LEVEL" ->
            Transition("None", <<"action_store_level", "action_level_compute">>, << >>)
      [] event = "NEIGHBOR_OFFER" ->
            Transition("None", <<"action_update_or_remove_offer">>, << >>)
      [] event = "BETTER_HAL" -> Transition("None", <<"action_level_compute">>, << >>)
      [] event = "BETTER_HAT" -> Transition("None", <<"action_level_compute">>, << >>)
      [] event = "LOST_HAL" ->
            Transition(HOLDING_DOWN, <<"action_start_timer_on_lost_hal">>, << >>)
      [] event = "LOST_HAT" -> Transition("None", <<"action_level_compute">>, << >>)
      [] event = "COMPUTATION_DONE" -> Transition(UPDATING_CLIENTS, << >>, << >>)
      [] OTHER -> NoTransition

node_transitions(state, event) ==
    CASE state = UPDATING_CLIENTS -> state_updating_clients_transitions(event)
      [] state = HOLDING_DOWN -> state_holding_down_transitions(event)
      [] state = COMPUTE_BEST_OFFER -> state_compute_best_offer_transitions(event)

node_state_entry_actions(state) ==
    CASE state = UPDATING_CLIENTS -> <<"action_update_all_lie_fsms">>
      [] state = COMPUTE_BEST_OFFER ->
            <<"action_stop_hold_down_timer", "action_level_compute">>
      [] OTHER -> << >>

NodeAction(w, n, action, event_data) ==
    CASE action = "action_store_level" -> action_store_level(w, n, event_data)
      [] action = "action_update_or_remove_offer" ->
            action_update_or_remove_offer(w, n, event_data)
      [] action = "action_level_compute" -> level_compute(w, n)
      [] action = "action_purge_offers" -> action_purge_offers(w, n)
      [] action = "action_update_all_lie_fsms" -> action_update_all_lie_fsms(w, n)
      [] action = "action_start_timer_on_lost_hal" -> action_start_timer_on_lost_hal(w, n)
      [] action = "action_stop_hold_down_timer" -> action_stop_hold_down_timer(w, n)
      [] OTHER -> w

RECURSIVE NodeInvokeActions(_, _, _, _)
NodeInvokeActions(w, n, actions, event_data) ==
    IF actions = << >> THEN w
    ELSE NodeInvokeActions(NodeAction(w, n, Head(actions), event_data), n,
                           Tail(actions), event_data)

\* The transitions of the node push no events and no state has exit actions.
NodeChangeState(w, n, to_state) ==
    IF to_state = "None" \/ to_state = w.ztp_state[n] THEN w
    ELSE NodeInvokeActions([w EXCEPT !.ztp_state[n] = to_state], n,
                           node_state_entry_actions(to_state), None)

NodeTransit(w, n, ev, transition) ==
    IF transition = NoTransition THEN w
    ELSE NodeChangeState(NodeInvokeActions(w, n, transition.actions, ev.data),
                         n, transition.to_state)

node_process_next_event(w, n) ==
    NodeTransit([w EXCEPT !.ztp_queue[n] = Tail(@)], n, Head(w.ztp_queue[n]),
                node_transitions(w.ztp_state[n], Head(w.ztp_queue[n]).event))

(***************************************************************************)
(* What reaches the program from outside.                                  *)
(***************************************************************************)
\* A message is either the bytes of a packet of this model or bytes that do
\* not decode, which decode_protocol_packet answers with None.
Undecodable == [undecodable |-> TRUE]

decode_protocol_packet(message) ==
    IF "undecodable" \in DOMAIN message THEN None ELSE message

\* The content of a decoded packet.  The packets of this model are flat: a
\* packet that has the fields of a LIE carries a LIE, and a flood packet has
\* the fields tie, tide and tire, each None when it is absent.
ContentOf(protocol_packet, kind) ==
    IF kind \in DOMAIN protocol_packet THEN protocol_packet[kind] ELSE None

ContentLie(protocol_packet) == "nbr_system_id" \in DOMAIN protocol_packet

HasContent(protocol_packet) ==
    \/ ContentLie(protocol_packet)
    \/ \E kind \in {"tie", "tide", "tire"} : kind \in DOMAIN protocol_packet

receive_message_common_despite_rx_fail(w, i, message) ==
    LET protocol_packet == decode_protocol_packet(message) IN
    IF protocol_packet = None THEN None
    ELSE IF protocol_packet.sender = w.system_id[w.intf_node[i]] THEN None
    ELSE IF ~HasContent(protocol_packet) THEN None
    ELSE IF protocol_packet.major_version # RIFT_MAJOR_VERSION THEN None
    ELSE protocol_packet

receive_message_common(w, i, message) ==
    LET protocol_packet == decode_protocol_packet(message) IN
    IF protocol_packet = None THEN None
    ELSE IF w.rx_fail[i] THEN None
    ELSE IF protocol_packet.sender = w.system_id[w.intf_node[i]] THEN None
    ELSE IF ~HasContent(protocol_packet) THEN None
    ELSE IF protocol_packet.major_version # RIFT_MAJOR_VERSION THEN None
    ELSE protocol_packet

receive_lie_message(w, i, message) ==
    LET protocol_packet == receive_message_common(w, i, message) IN
    IF protocol_packet = None THEN w
    ELSE IF ContentLie(protocol_packet)
         THEN PushIntf(w, i, "LIE_RECEIVED", protocol_packet)
    ELSE w

\* set_failure simulates the failure of the interface in either direction.
set_failure(w, i, tx_failure, rx_failure) ==
    [w EXCEPT !.tx_fail[i] = tx_failure, !.rx_fail[i] = rx_failure]

\* The one second timer of the interface expires.
one_second_timer_expires(w, i) == PushIntf(w, i, "TIMER_TICK", None)

\* The hold down timer of the node, which is not periodic, expires.
hold_down_timer_expires(w, n) ==
    PushNode([w EXCEPT !.hold_down_timer[n] = FALSE], n, "HOLD_DOWN_EXPIRED", None)

\* compare_tie_header_age with a lifetime difference of exactly
\* lifetime_diff2ignore already counted as a difference.
compare_tie_header_age_from_diff2ignore(header1, header2) ==
    IF header1.seq_nr < header2.seq_nr THEN 0 - 1
    ELSE IF header1.seq_nr > header2.seq_nr THEN 1
    ELSE IF header1.remaining_lifetime = 0 /\ header2.remaining_lifetime # 0 THEN 0 - 1
    ELSE IF header1.remaining_lifetime # 0 /\ header2.remaining_lifetime = 0 THEN 1
    ELSE IF Abs(header1.remaining_lifetime - header2.remaining_lifetime)
                < lifetime_diff2ignore THEN 0
    ELSE IF header1.remaining_lifetime < header2.remaining_lifetime THEN 0 - 1
    ELSE 1

(***************************************************************************)
(* Flooding: the TIE database of the node and the four flood queues of an  *)
(* interface.  A queue is an OrderedDict from TIE-ID to TIE header: a      *)
(* sequence of headers with distinct TIE-IDs, in the order of insertion.   *)
(***************************************************************************)
compare_tie_header_age(header1, header2) ==
    IF header1.seq_nr < header2.seq_nr THEN 0 - 1
    ELSE IF header1.seq_nr > header2.seq_nr THEN 1
    ELSE IF header1.remaining_lifetime = 0 /\ header2.remaining_lifetime # 0 THEN 0 - 1
    ELSE IF header1.remaining_lifetime # 0 /\ header2.remaining_lifetime = 0 THEN 1
    ELSE IF Abs(header1.remaining_lifetime - header2.remaining_lifetime)
                <= lifetime_diff2ignore THEN 0
    ELSE IF header1.remaining_lifetime < header2.remaining_lifetime THEN 0 - 1
    ELSE 1

\* The filters read self.neighbor.system_id and compare the two levels: they
\* raise without a neighbor and when one of the levels is None.
FloodFilterRaises(w, i) ==
    w.neighbor[i] = None \/ neighbor_direction(w, i) = "raised"

\* USE_SIMPLE_REQUEST_FILTERING is True: is_request_allowed_simple decides.
is_request_filtered(w, i, tie_header) ==
    ~flood_allowed_from_nbr_to_node(w, w.intf_node[i], tie_header,
                                    neighbor_direction(w, i), w.neighbor[i].system_id,
                                    w.neighbor[i].level,
                                    neighbor_top_of_fabric(w.neighbor[i]),
                                    w.system_id[w.intf_node[i]])

is_flood_filtered(w, i, tie_header) ==
    ~is_flood_allowed(w, w.intf_node[i], tie_header, neighbor_direction(w, i),
                      w.neighbor[i].system_id, w.system_id[w.intf_node[i]],
                      level_value(w, w.intf_node[i]), top_of_fabric(w, w.intf_node[i]))

\* tieid in queue, queue[tieid] = header and del queue[tieid]
HeaderIndex(queue, tieid) ==
    IF \E k \in 1..Len(queue) : queue[k].tieid = tieid
    THEN CHOOSE k \in 1..Len(queue) : queue[k].tieid = tieid
    ELSE 0

PutHeader(queue, tie_header) ==
    IF HeaderIndex(queue, tie_header.tieid) = 0 THEN Append(queue, tie_header)
    ELSE [queue EXCEPT ![HeaderIndex(queue, tie_header.tieid)] = tie_header]

DelHeader(queue, tieid) == SelectSeq(queue, LAMBDA h : h.tieid # tieid)

remove_from_ties_tx(w, i, tie_header) ==
    [w EXCEPT !.ties_tx[i] = DelHeader(@, tie_header.tieid)]

remove_from_ties_rtx(w, i, tie_header) ==
    [w EXCEPT !.ties_rtx[i] = DelHeader(@, tie_header.tieid)]

remove_from_ties_req(w, i, tie_header) ==
    [w EXCEPT !.ties_req[i] = DelHeader(@, tie_header.tieid)]

remove_from_ties_ack(w, i, tie_header) ==
    [w EXCEPT !.ties_ack[i] = DelHeader(@, tie_header.tieid)]

\* The TIE that is sent at once goes to the neighbor; sending it changes
\* nothing in this node.
add_to_ties_tx(w, i, tie_header) ==
    [w EXCEPT !.ties_tx[i] = PutHeader(@, tie_header)]

\* try_to_transmit_tie that puts the header on the TX queue whatever the ACK
\* queue holds.
try_to_transmit_tie_despite_ack(w, i, tie_header) ==
    IF w.crashed[w.intf_node[i]] THEN w
    ELSE IF FloodFilterRaises(w, i) THEN Raise(w, w.intf_node[i])
    ELSE IF is_flood_filtered(w, i, tie_header) THEN w
    ELSE add_to_ties_tx(
             remove_from_ties_ack(remove_from_ties_rtx(w, i, tie_header), i, tie_header),
             i, tie_header)

try_to_transmit_tie(w, i, tie_header) ==
    IF w.crashed[w.intf_node[i]] THEN w
    ELSE IF FloodFilterRaises(w, i) THEN Raise(w, w.intf_node[i])
    ELSE IF is_flood_filtered(w, i, tie_header) THEN w
    ELSE IF HeaderIndex(w.ties_ack[i], tie_header.tieid) = 0 THEN
        add_to_ties_tx(remove_from_ties_rtx(w, i, tie_header), i, tie_header)
    ELSE IF w.ties_ack[i][HeaderIndex(w.ties_ack[i], tie_header.tieid)].seq_nr
                < tie_header.seq_nr THEN
        add_to_ties_tx(
            remove_from_ties_ack(remove_from_ties_rtx(w, i, tie_header), i, tie_header),
            i, tie_header)
    ELSE remove_from_ties_rtx(w, i, tie_header)

remove_from_all_queues(w, i, tie_header) ==
    remove_from_ties_ack(
        remove_from_ties_req(
            remove_from_ties_rtx(remove_from_ties_tx(w, i, tie_header), i, tie_header),
            i, tie_header),
        i, tie_header)

ack_tie(w, i, tie_header) ==
    [remove_from_all_queues(w, i, tie_header) EXCEPT
        !.ties_ack[i] = Append(@, tie_header)]

\* tie_been_acked that takes the TIE off the TX queue only.
tie_been_acked_off_tx_only(w, i, tie_header) == remove_from_ties_tx(w, i, tie_header)

tie_been_acked(w, i, tie_header) == remove_from_all_queues(w, i, tie_header)

request_tie(w, i, tie_header) ==
    IF w.crashed[w.intf_node[i]] THEN w
    ELSE IF FloodFilterRaises(w, i) THEN Raise(w, w.intf_node[i])
    ELSE IF is_request_filtered(w, i, tie_header) THEN w
    ELSE [remove_from_all_queues(w, i, tie_header) EXCEPT
             !.ties_req[i] = Append(@, tie_header)]

move_to_rtx_queue(w, i, tie_header) ==
    [remove_from_ties_rtx(w, i, tie_header) EXCEPT !.ties_rtx[i] = Append(@, tie_header)]

(***************************************************************************)
(* Flooding: a received TIE and a received TIRE.                           *)
(***************************************************************************)
\* db_tie.header.seq_nr = seq_nr: the header of the TIE in the database is
\* one object.  The TIEs the node keeps as its own refer to it, and so do the
\* headers on the TX and ACK queues that were taken from the database.
BumpHeader(header, db_header, seq_nr) ==
    IF header = db_header THEN [header EXCEPT !.seq_nr = seq_nr] ELSE header

BumpTie(tie, db_header, seq_nr) ==
    IF tie = None THEN tie
    ELSE [tie EXCEPT !.header = BumpHeader(@, db_header, seq_nr)]

BumpQueue(queue, db_header, seq_nr) ==
    IF queue = << >> THEN queue
    ELSE [k \in 1..Len(queue) |-> BumpHeader(queue[k], db_header, seq_nr)]

BumpDbTie(w, n, db_header, seq_nr) ==
    [w EXCEPT
        !.ties[n][db_header.tieid].header.seq_nr = seq_nr,
        !.my_node_ties[n] = [d \in {South, North} |-> BumpTie(@[d], db_header, seq_nr)],
        !.my_south_prefix_tie[n] = BumpTie(@, db_header, seq_nr),
        !.ties_tx = [i \in DOMAIN @ |-> IF w.intf_node[i] = n
                                        THEN BumpQueue(@[i], db_header, seq_nr)
                                        ELSE @[i]],
        !.ties_ack = [i \in DOMAIN @ |-> IF w.intf_node[i] = n
                                         THEN BumpQueue(@[i], db_header, seq_nr)
                                         ELSE @[i]]]

\* age_ties that removes a TIE one tick after its lifetime has reached 0.
age_ties_below_zero(w, n) ==
    LET aged(header) == [header EXCEPT !.remaining_lifetime = @ - 1]
        expired == { tie_id \in DOMAIN w.ties[n] :
                       w.ties[n][tie_id].header.remaining_lifetime - 1 < 0 }
    IN  [w EXCEPT !.ties[n] = [tie_id \in DOMAIN @ \ expired |->
                                  [@[tie_id] EXCEPT !.header = aged(@)]]]

\* The TIEs of which age_ties finds the lifetime at or below 0 after it has
\* taken one second off.
expired_key_ids(w, n) ==
    { tie_id \in DOMAIN w.ties[n] : w.ties[n][tie_id].header.remaining_lifetime - 1 <= 0 }

\* Node.age_ties: db_tie.header.remaining_lifetime -= 1 for every TIE of the
\* database, and remove_tie for the expired ones.  The header of a TIE in
\* the database is one object: the TIEs the node keeps as its own and as
\* those of its level refer to it, and so do the headers on the TX and ACK
\* queues that were taken from the database.  remove_tie leaves them alone.
age_ties(w, n) ==
    LET db_headers == { w.ties[n][tie_id].header : tie_id \in DOMAIN w.ties[n] }
        aged(header) == IF header \in db_headers
                        THEN [header EXCEPT !.remaining_lifetime = @ - 1]
                        ELSE header
        aged_tie(tie) == IF tie = None THEN tie ELSE [tie EXCEPT !.header = aged(@)]
        aged_queue(queue) == IF queue = << >> THEN queue
                             ELSE [k \in 1..Len(queue) |-> aged(queue[k])]
    IN  [w EXCEPT
            !.ties[n] = [tie_id \in DOMAIN @ \ expired_key_ids(w, n) |-> aged_tie(@[tie_id])],
            !.my_node_ties[n] = [d \in {South, North} |-> aged_tie(@[d])],
            !.my_south_prefix_tie[n] = aged_tie(@),
            !.other_node_ties_at_my_level[n] = [tie_id \in DOMAIN @ |-> aged_tie(@[tie_id])],
            !.ties_tx = [i \in DOMAIN @ |-> IF w.intf_node[i] = n THEN aged_queue(@[i])
                                            ELSE @[i]],
            !.ties_ack = [i \in DOMAIN @ |-> IF w.intf_node[i] = n THEN aged_queue(@[i])
                                             ELSE @[i]]]

\* The calls of trigger_spf that one age_ties makes: remove_tie makes one for
\* every expired TIE, each of which is in the database.
age_ties_spf_triggers(w, n) == Cardinality(expired_key_ids(w, n))

find_according_real_node_tie(w, n, rx_tie_header) ==
    find_tie(w, n, [rx_tie_header.tieid EXCEPT !.tie_nr = MY_TIE_NR])

\* make_according_empty_tie that keeps the sequence number of the received
\* header.
make_according_empty_tie_same_seq_nr(w, n, rx_tie_header) ==
    [header |-> TIEHeader(rx_tie_header.tieid, rx_tie_header.seq_nr, FLUSH_LIFETIME),
     element |-> IF rx_tie_header.tieid.tietype = NodeTIEType
                 THEN [find_according_real_node_tie(w, n, rx_tie_header).element
                          EXCEPT !.neighbors = << >>]
                 ELSE [prefixes |-> {}]]

\* The TIE types of this model are the node TIE and the prefix TIE.
make_according_empty_tie(w, n, rx_tie_header) ==
    [header |-> TIEHeader(rx_tie_header.tieid, rx_tie_header.seq_nr + 1, FLUSH_LIFETIME),
     element |-> IF rx_tie_header.tieid.tietype = NodeTIEType
                 THEN [find_according_real_node_tie(w, n, rx_tie_header).element
                          EXCEPT !.neighbors = << >>]
                 ELSE [prefixes |-> {}]]

\* find_according_real_node_tie asserts that the real node TIE is found.
BumpRaises(w, n, db_tie, rx_tie_header) ==
    /\ db_tie = None
    /\ rx_tie_header.tieid.tietype = NodeTIEType
    /\ find_according_real_node_tie(w, n, rx_tie_header) = None

\* The database after bump_own_tie, and the header it returns.
bump_own_tie(w, n, db_tie, rx_tie_header) ==
    IF BumpRaises(w, n, db_tie, rx_tie_header) THEN Raise(w, n)
    ELSE IF db_tie = None
    THEN store_tie(w, n, make_according_empty_tie(w, n, rx_tie_header))
    ELSE BumpDbTie(w, n, db_tie.header, rx_tie_header.seq_nr + 1)

bump_own_tie_header(w, n, db_tie, rx_tie_header) ==
    IF db_tie = None
    THEN TIEHeader(rx_tie_header.tieid, rx_tie_header.seq_nr + 1, FLUSH_LIFETIME)
    ELSE [db_tie.header EXCEPT !.seq_nr = rx_tie_header.seq_nr + 1]

\* What Node.process_received_tie_packet decides: "bump", "store", "send" or
\* "ack".
TieDecision(w, n, rx_tie) ==
    LET db_tie == find_tie(w, n, rx_tie.header.tieid)
        own == rx_tie.header.tieid.originator = w.system_id[n]
    IN  IF db_tie = None THEN (IF own THEN "bump" ELSE "store")
        ELSE IF compare_tie_header_age(db_tie.header, rx_tie.header) < 0
        THEN (IF own THEN "bump" ELSE "store")
        ELSE IF compare_tie_header_age(db_tie.header, rx_tie.header) > 0 THEN "send"
        ELSE "ack"

\* Node.process_received_tie_packet: the node after it, and the pair
\* (start_sending_tie_header, ack_tie_header) it returns.
node_process_received_tie_packet(w, n, rx_tie) ==
    CASE TieDecision(w, n, rx_tie) = "bump" ->
            bump_own_tie(w, n, find_tie(w, n, rx_tie.header.tieid), rx_tie.header)
      [] TieDecision(w, n, rx_tie) = "store" -> store_tie(w, n, rx_tie)
      [] OTHER -> w

start_sending_tie_header(w, n, rx_tie) ==
    CASE TieDecision(w, n, rx_tie) = "bump" ->
            bump_own_tie_header(w, n, find_tie(w, n, rx_tie.header.tieid), rx_tie.header)
      [] TieDecision(w, n, rx_tie) = "send" -> find_tie(w, n, rx_tie.header.tieid).header
      [] OTHER -> None

ack_tie_header(w, n, rx_tie) ==
    CASE TieDecision(w, n, rx_tie) = "store" -> rx_tie.header
      [] TieDecision(w, n, rx_tie) = "ack" -> find_tie(w, n, rx_tie.header.tieid).header
      [] OTHER -> None

\* Interface.process_received_tie_packet, after the node has decided.
TieAcked(w, i, ack) ==
    IF w.crashed[w.intf_node[i]] \/ ack = None THEN w ELSE ack_tie(w, i, ack)

TieDecided(w, i, start_sending, ack) ==
    IF w.crashed[w.intf_node[i]] THEN w
    ELSE TieAcked(IF start_sending = None THEN w
                  ELSE try_to_transmit_tie(w, i, start_sending), i, ack)

process_received_tie_packet(w, i, tie_packet) ==
    TieDecided(node_process_received_tie_packet(w, w.intf_node[i], tie_packet), i,
               start_sending_tie_header(w, w.intf_node[i], tie_packet),
               ack_tie_header(w, w.intf_node[i], tie_packet))

\* Node.process_received_tire_packet: the three lists it returns, each in the
\* order of the headers of the TIRE.  comparison is -1, 1 or 0.
RECURSIVE TireHeaders(_, _, _, _)
TireHeaders(w, n, headers, comparison) ==
    IF headers = << >> THEN << >>
    ELSE LET header_in_tire == Head(headers)
             db_tie == find_tie(w, n, header_in_tire.tieid)
         IN  (IF db_tie = None THEN << >>
              ELSE IF compare_tie_header_age(db_tie.header, header_in_tire) # comparison
              THEN << >>
              ELSE IF comparison < 0 THEN << header_in_tire >>
              ELSE << db_tie.header >>)
             \o TireHeaders(w, n, Tail(headers), comparison)

RECURSIVE TryToTransmitTies(_, _, _)
TryToTransmitTies(w, i, headers) ==
    IF headers = << >> THEN w
    ELSE TryToTransmitTies(try_to_transmit_tie(w, i, Head(headers)), i, Tail(headers))

RECURSIVE RequestTies(_, _, _)
RequestTies(w, i, headers) ==
    IF headers = << >> THEN w
    ELSE RequestTies(request_tie(w, i, Head(headers)), i, Tail(headers))

RECURSIVE TiesBeenAcked(_, _, _)
TiesBeenAcked(w, i, headers) ==
    IF headers = << >> THEN w
    ELSE TiesBeenAcked(tie_been_acked(w, i, Head(headers)), i, Tail(headers))

\* Interface.process_received_tire_packet, after the node has made the lists.
TireDecided(w, i, request_tie_headers, start_sending_tie_headers, acked_tie_headers) ==
    TiesBeenAcked(
        RequestTies(TryToTransmitTies(w, i, start_sending_tie_headers), i,
                    request_tie_headers),
        i, acked_tie_headers)

process_received_tire_packet(w, i, tire_packet) ==
    TireDecided(w, i,
                TireHeaders(w, w.intf_node[i], tire_packet.headers, 0 - 1),
                TireHeaders(w, w.intf_node[i], tire_packet.headers, 1),
                TireHeaders(w, w.intf_node[i], tire_packet.headers, 0))

\* start_sending_db_ties_in_range that takes both ends of the range in.
start_sending_db_ties_in_range_inclusive(w, n, start_id, start_incl, end_id, end_incl) ==
    LET db_ties == sorted_tie_ids(
            { db_tie_id \in DOMAIN w.ties[n] :
                /\ tie_id_less(start_id, db_tie_id) \/ db_tie_id = start_id
                /\ tie_id_less(db_tie_id, end_id) \/ db_tie_id = end_id })
    IN  [k \in 1..Len(db_ties) |-> w.ties[n][db_ties[k]].header]

\* The headers of the TIEs of the database whose TIE-IDs lie between
\* start_id and end_id, in the order of the TIE-IDs (SortedDict.irange).
start_sending_db_ties_in_range(w, n, start_id, start_incl, end_id, end_incl) ==
    LET db_ties == sorted_tie_ids(
            { db_tie_id \in DOMAIN w.ties[n] :
                /\ tie_id_less(start_id, db_tie_id) \/ (start_incl /\ db_tie_id = start_id)
                /\ tie_id_less(db_tie_id, end_id) \/ (end_incl /\ db_tie_id = end_id) })
    IN  [k \in 1..Len(db_ties) |-> w.ties[n][db_ties[k]].header]

\* The world and the three lists that Node.process_received_tide_packet
\* builds while it goes through the TIDE.
TideLists(w, request_tie_headers, start_sending_tie_headers, stop_sending_tie_headers) ==
    [w |-> w, request_tie_headers |-> request_tie_headers,
     start_sending_tie_headers |-> start_sending_tie_headers,
     stop_sending_tie_headers |-> stop_sending_tie_headers]

\* The start of process_received_tide_packet: the wrap-around and the gap
\* between the end of the previous TIDE and the start of this one.
TideLastEnd(w, n, tide_packet) ==
    IF tie_id_less(tide_packet.start_range, w.last_received_tide_end[n])
    THEN MIN_TIE_ID
    ELSE w.last_received_tide_end[n]

TideGapBefore(w, n, tide_packet, last_end) ==
    TideLists([w EXCEPT !.last_received_tide_end[n] = tide_packet.end_range],
              << >>,
              IF tie_id_less(last_end, tide_packet.start_range)
              THEN start_sending_db_ties_in_range(w, n, last_end, TRUE,
                                                  tide_packet.start_range, FALSE)
              ELSE << >>,
              << >>)

\* The header of a request for a TIE that is missing.
TideRequestHeader(header_in_tide) == TIEHeader(header_in_tide.tieid, 0, 0)

\* What is done with one header of the TIDE after the gap before it.
TideHeaderCompared(lists, n, header_in_tide, db_tie) ==
    IF db_tie = None \/ compare_tie_header_age(IF db_tie = None THEN header_in_tide
                                               ELSE db_tie.header, header_in_tide) < 0
    THEN IF header_in_tide.tieid.originator = lists.w.system_id[n]
         THEN [lists EXCEPT
                  !.w = bump_own_tie(lists.w, n, db_tie, header_in_tide),
                  !.start_sending_tie_headers =
                      Append(@, bump_own_tie_header(lists.w, n, db_tie, header_in_tide))]
         ELSE [lists EXCEPT
                  !.request_tie_headers =
                      Append(@, IF db_tie = None THEN TideRequestHeader(header_in_tide)
                                ELSE header_in_tide)]
    ELSE IF compare_tie_header_age(db_tie.header, header_in_tide) > 0
    THEN [lists EXCEPT !.start_sending_tie_headers = Append(@, db_tie.header)]
    ELSE [lists EXCEPT !.stop_sending_tie_headers = Append(@, db_tie.header)]

TideGap(lists, n, start_id, start_incl, end_id, end_incl) ==
    [lists EXCEPT !.start_sending_tie_headers =
        @ \o start_sending_db_ties_in_range(lists.w, n, start_id, start_incl,
                                            end_id, end_incl)]

\* The loop over the headers of the TIDE, and the gap behind the last one.
\* A header below the one before it fails an assertion.
RECURSIVE TideHeaders(_, _, _, _, _, _)
TideHeaders(lists, n, headers, last_processed_tie_id, minimum_inclusive, end_range) ==
    IF lists.w.crashed[n] THEN lists
    ELSE IF headers = << >>
    THEN TideGap(lists, n, last_processed_tie_id, minimum_inclusive, end_range, TRUE)
    ELSE IF tie_id_less(Head(headers).tieid, last_processed_tie_id)
    THEN [lists EXCEPT !.w = Raise(@, n)]
    ELSE TideHeaders(
             TideHeaderCompared(
                 TideGap(lists, n, last_processed_tie_id, minimum_inclusive,
                         Head(headers).tieid, FALSE),
                 n, Head(headers), find_tie(lists.w, n, Head(headers).tieid)),
             n, Tail(headers), Head(headers).tieid, FALSE, end_range)

node_process_received_tide_packet(w, n, tide_packet) ==
    TideHeaders(TideGapBefore(w, n, tide_packet, TideLastEnd(w, n, tide_packet)),
                n, tide_packet.headers, tide_packet.start_range, TRUE,
                tide_packet.end_range)

RECURSIVE RemoveTiesFromAllQueues(_, _, _)
RemoveTiesFromAllQueues(w, i, headers) ==
    IF headers = << >> THEN w
    ELSE RemoveTiesFromAllQueues(remove_from_all_queues(w, i, Head(headers)), i,
                                 Tail(headers))

\* Interface.process_received_tide_packet that leaves the TIEs of which the
\* neighbor has the same version on the queues.
TideDecidedWithoutStop(lists, i) ==
    IF lists.w.crashed[lists.w.intf_node[i]] THEN lists.w
    ELSE RequestTies(TryToTransmitTies(lists.w, i, lists.start_sending_tie_headers),
                     i, lists.request_tie_headers)

\* Interface.process_received_tide_packet, after the node has made the lists.
TideDecided(lists, i) ==
    IF lists.w.crashed[lists.w.intf_node[i]] THEN lists.w
    ELSE RemoveTiesFromAllQueues(
             RequestTies(TryToTransmitTies(lists.w, i, lists.start_sending_tie_headers),
                         i, lists.request_tie_headers),
             i, lists.stop_sending_tie_headers)

process_received_tide_packet(w, i, tide_packet) ==
    TideDecided(node_process_received_tide_packet(w, w.intf_node[i], tide_packet), i)

\* The TIE, the TIDE and the TIRE of a packet are processed in this order.
FloodTide(w, i, protocol_packet) ==
    IF w.crashed[w.intf_node[i]] \/ ContentOf(protocol_packet, "tide") = None THEN w
    ELSE process_received_tide_packet(w, i, protocol_packet.tide)

FloodTire(w, i, protocol_packet) ==
    IF w.crashed[w.intf_node[i]] \/ ContentOf(protocol_packet, "tire") = None THEN w
    ELSE process_received_tire_packet(w, i, protocol_packet.tire)

FloodContent(w, i, protocol_packet) ==
    FloodTire(FloodTide(w, i, protocol_packet), i, protocol_packet)

receive_flood_message(w, i, message) ==
    LET protocol_packet == receive_message_common(w, i, message) IN
    IF protocol_packet = None THEN w
    ELSE FloodContent(IF ContentOf(protocol_packet, "tie") = None THEN w
                      ELSE process_received_tie_packet(w, i, protocol_packet.tie),
                      i, protocol_packet)

(***************************************************************************)
(* Interface: the service of the queues, once every second while the       *)
(* service queues timer runs.  Nothing is taken off a queue.               *)
(***************************************************************************)
service_ties_ack(w, i) ==
    send_flood_packet(w, i, ProtocolPacket(w.system_id[w.intf_node[i]], None, None,
                                           [headers |-> w.ties_ack[i]]))

\* The TIRE of service_ties_req holds the headers of the REQ queue that the
\* neighbor may flood to this node.
service_ties_req_unfiltered(w, i) ==
    send_flood_packet(w, i, ProtocolPacket(w.system_id[w.intf_node[i]], None, None,
                                           [headers |-> w.ties_req[i]]))

service_ties_req(w, i) ==
    IF FloodFilterRaises(w, i) THEN Raise(w, w.intf_node[i])
    ELSE send_flood_packet(
             w, i,
             ProtocolPacket(w.system_id[w.intf_node[i]], None, None,
                            [headers |->
                                SelectSeq(w.ties_req[i],
                                          LAMBDA tie_header :
                                              ~is_request_filtered(w, i, tie_header))]))

\* One packet for every TIE of the queue that is in the database.
RECURSIVE service_ties_queue(_, _, _)
service_ties_queue(w, i, queue) ==
    IF queue = << >> THEN w
    ELSE service_ties_queue(
             IF find_tie(w, w.intf_node[i], Head(queue).tieid) = None THEN w
             ELSE send_flood_packet(
                      w, i,
                      ProtocolPacket(w.system_id[w.intf_node[i]],
                                     find_tie(w, w.intf_node[i], Head(queue).tieid),
                                     None, None)),
             i, Tail(queue))

service_ties_tx(w, i) == service_ties_queue(w, i, w.ties_tx[i])

service_ties_rtx(w, i) == service_ties_queue(w, i, w.ties_rtx[i])

ServiceReq(w, i) ==
    IF w.crashed[w.intf_node[i]] \/ w.ties_req[i] = << >> THEN w ELSE service_ties_req(w, i)

ServiceRtx(w, i) == IF w.ties_rtx[i] = << >> THEN w ELSE service_ties_rtx(w, i)

ServiceTx(w, i) == IF w.ties_tx[i] = << >> THEN w ELSE service_ties_tx(w, i)

ServiceAck(w, i) == IF w.ties_ack[i] = << >> THEN w ELSE service_ties_ack(w, i)

\* service_queues that sends the acknowledgements and the requests only.
service_queues_without_ties(w, i) == ServiceReq(ServiceAck(w, i), i)

service_queues(w, i) == ServiceReq(ServiceRtx(ServiceTx(ServiceAck(w, i), i), i), i)

(***************************************************************************)
(* The state after construction.  cfgs gives the system id and the level   *)
(* symbol of every node, node_of the node of every interface and links the *)
(* interfaces that hear the LIEs of every interface.  The configuration    *)
(* has no prefixes, so that no north prefix TIE is originated.  The LIE an *)
(* interface sends while it is constructed is heard by nobody.             *)
(***************************************************************************)
NodeConfig(sysid, level_symbol) == [systemid |-> sysid, level |-> level_symbol]

Constructed(cfgs, node_of, links) ==
    LET N == DOMAIN cfgs
        I == DOMAIN node_of
        parse_result(n) == parse_level_symbol(cfgs[n].level)
    IN  [ intf_node |-> node_of,
          local_id |-> [i \in I |-> Cardinality({ j \in I : node_of[j] = node_of[i] /\ j <= i })],
          if_state |-> [i \in I |-> ONE_WAY],
          neighbor |-> [i \in I |-> None],
          time_ticks_since_lie_received |-> [i \in I |-> NoTicks],
          lie_accept_or_reject |-> [i \in I |-> "No LIE Received"],
          lie_accept_or_reject_rule |-> [i \in I |-> "-"],
          if_queue |-> [i \in I |-> << >>],
          if_last |-> [i \in I |-> None],
          service_queues_timer |-> [i \in I |-> FALSE],
          ties_tx |-> [i \in I |-> << >>],
          ties_rtx |-> [i \in I |-> << >>],
          ties_req |-> [i \in I |-> << >>],
          ties_ack |-> [i \in I |-> << >>],
          lie_wire |-> [i \in I |-> << >>],
          link |-> links,
          flood_wire |-> [i \in I |-> << >>],
          flood_link |-> [i \in I |-> {}],
          rx_fail |-> [i \in I |-> FALSE],
          tx_fail |-> [i \in I |-> FALSE],
          system_id |-> [n \in N |-> cfgs[n].systemid],
          configured_level |-> [n \in N |-> parse_result(n)[1]],
          leaf_only |-> [n \in N |-> parse_result(n)[2]],
          leaf_2_leaf |-> [n \in N |-> parse_result(n)[3]],
          top_of_fabric_flag |-> [n \in N |-> parse_result(n)[4]],
          derived_level |-> [n \in N |-> NoLevel],
          highest_available_level |-> [n \in N |-> NoLevel],
          highest_adjacency_three_way |-> [n \in N |-> NoLevel],
          rx_offers |-> [n \in N |-> << >>],
          ztp_state |-> [n \in N |-> COMPUTE_BEST_OFFER],
          ztp_queue |-> [n \in N |-> << >>],
          hold_down_timer |-> [n \in N |-> FALSE],
          my_node_tie_seq_nrs |-> [n \in N |-> [d \in {South, North} |-> 0]],
          my_node_ties |-> [n \in N |-> [d \in {South, North} |-> None]],
          ties |-> [n \in N |-> << >>],
          other_node_ties_at_my_level |-> [n \in N |-> << >>],
          originating_default |-> [n \in N |-> FALSE],
          my_south_prefix_tie |-> [n \in N |-> None],
          last_received_tide_end |-> [n \in N |-> MIN_TIE_ID],
          crashed |-> [n \in N |-> FALSE] ]

\* The end of Node.__init__: the TIEs of the node, then the start of its
\* state machine, which runs the entry actions of COMPUTE_BEST_OFFER.
NodeInit(w, n) ==
    NodeInvokeActions(
        regenerate_my_south_prefix_tie(regenerate_my_node_ties(w, n, 0), n, 0),
        n, node_state_entry_actions(COMPUTE_BEST_OFFER), None)

RECURSIVE NodesInit(_, _)
NodesInit(w, k) == IF k = 0 THEN w ELSE NodeInit(NodesInit(w, k - 1), k)

Started(cfgs, node_of, links) ==
    NodesInit(Constructed(cfgs, node_of, links), Len(cfgs))

(***************************************************************************)
(* The steps of the program.                                               *)
(***************************************************************************)
\* The events of a node that wait in the queues of its state machines.
Pending(w, n) ==
    LET RECURSIVE Sum(_)
        Sum(S) == IF S = {} THEN 0
                  ELSE LET i == CHOOSE i \in S : TRUE
                       IN  Len(w.if_queue[i]) + Sum(S \ {i})
    IN  Len(w.ztp_queue[n]) + Sum(IntfsOf(w, n))

\* No TIE of the node has a sequence number over the bound.
Bounded(w) ==
    \A n \in Nodes(w) :
        /\ \A d \in {South, North} : w.my_node_tie_seq_nrs[n][d] <= MaxSeqNr
        /\ w.my_south_prefix_tie[n] # None
              => w.my_south_prefix_tie[n].header.seq_nr <= MaxSeqNr

\* A handler of node n ends in state w, or with an exception that ends the
\* process of the node.
Ended(w, n) ==
    IF w.crashed[n] THEN Commit(Raise(World, n))
    ELSE Bounded(w) /\ Commit(w)

\* The handlers of the program leave the variables that are not its state.
Finish(w, n) ==
    /\ UNCHANGED << fn_in, fn_out, link_clock, spf >>
    /\ Ended(w, n)

IntfStep(i) ==
    /\ ~crashed[intf_node[i]]
    /\ if_queue[i] # << >>
    /\ Finish(intf_process_next_event(World, i), intf_node[i])

NodeStep(n) ==
    /\ ~crashed[n]
    /\ ztp_queue[n] # << >>
    /\ Finish(node_process_next_event(World, n), n)

TimerTick(i) ==
    /\ ~crashed[intf_node[i]]
    /\ Pending(World, intf_node[i]) < MaxPending
    /\ Finish(one_second_timer_expires(World, i), intf_node[i])

HoldDownExpired(n) ==
    /\ ~crashed[n]
    /\ hold_down_timer[n]
    /\ Finish(hold_down_timer_expires(World, n), n)

(***************************************************************************)
(* Spec: one node with one interface, which hears LIEs from neighbors that  *)
(* are not part of the model.                                              *)
(***************************************************************************)
SpecLevels ==
    { LevelWord("undefined"), LevelWord("leaf"), LevelWord("top-of-fabric"), LevelInt(1) }

\* The LIEs that arrive on interface i of the node with system id 1: a LIE
\* of system 2 at level 2 that reflects this interface, and the same LIE
\* without the reflection, without a level, from level 0, from system 3 at
\* level 24, with another MTU, from system 0, with a shorter hold time, and
\* with the not-a-ZTP-offer flag.
EnvLIEs(i) ==
    LET good == LIEPacket(2, 2, 1, 1, local_id[i], get_mtu, FALSE, TRUE) IN
    { good,
      [good EXCEPT !.nbr_system_id = NoId, !.nbr_link_id = NoId],
      [good EXCEPT !.level = NoLevel],
      [good EXCEPT !.level = 0],
      [good EXCEPT !.sender = 3, !.level = 24],
      [good EXCEPT !.link_mtu_size = 1500],
      [good EXCEPT !.sender = 0],
      [good EXCEPT !.holdtime = 2],
      [good EXCEPT !.not_a_ztp_offer = TRUE] }

EnvLie(i) ==
    /\ ~crashed[intf_node[i]]
    /\ Pending(World, intf_node[i]) < MaxPending
    /\ \E protocol_packet \in EnvLIEs(i) :
          Finish(receive_lie_message(World, i, protocol_packet), intf_node[i])

Init ==
    /\ \E level_symbol \in SpecLevels :
          IsWorld(Started(<<NodeConfig(1, level_symbol)>>, <<1>>, <<{}>>))
    /\ fn_in = None
    /\ fn_out = None
    /\ link_clock = None
    /\ spf = None

Next ==
    \/ \E i \in Intfs(World) : EnvLie(i)
    \/ \E i \in Intfs(World) : TimerTick(i)
    \/ \E i \in Intfs(World) : IntfStep(i)
    \/ \E n \in Nodes(World) : NodeStep(n)

Spec == Init /\ [][Next]_vars

\* With one interface and one event at a time the hold down timer of the node
\* is never started, so that Next has no step for its expiry.
SpecHoldDownTimerNeverRuns == \A n \in Nodes(World) : ~hold_down_timer[n]

(***************************************************************************)
(* Properties of Spec.                                                     *)
(***************************************************************************)
\* No event waits in the queue of the state machine of interface i.
IntfQuiet(i) == if_queue[i] = << >>

\* C1: an interface in state THREE_WAY has a neighbor, and that neighbor
\* reports the system id of this node and the local id of this interface as
\* its own neighbor.  Stated here for the states in which no event waits for
\* the state machine of the interface, where the claim asks the least.
C1_ThreeWayNeighborReflects ==
    \A i \in Intfs(World) :
        (if_state[i] = THREE_WAY /\ IntfQuiet(i) /\ ~crashed[intf_node[i]]) =>
            /\ neighbor[i] # None
            /\ neighbor[i].neighbor_system_id = system_id[intf_node[i]]
            /\ neighbor[i].neighbor_link_id = local_id[i]

\* The reasons of rejection for which C5 says the adjacency is reset and
\* that a LIE which reaches action_process_lie can be rejected for.
ResetRules == { "Missing header", "Invalid system ID", "MTU mismatch", "PoD mismatch",
                "Remote system ID is same as local system ID (loop)" }

\* C5: when the last LIE was rejected for a missing header, a major version
\* mismatch, system id zero, the sender being this node, an MTU mismatch or
\* a PoD mismatch, and all the events it caused are processed, the interface
\* is in state ONE_WAY and has no neighbor.
C5_RejectedLieResetsAdjacency ==
    \A i \in Intfs(World) :
        ( /\ lie_accept_or_reject[i] = "Rejected"
          /\ lie_accept_or_reject_rule[i] \in ResetRules
          /\ IntfQuiet(i)
          /\ ~crashed[intf_node[i]] ) =>
            (if_state[i] = ONE_WAY /\ neighbor[i] = None)

\* The event at the head of the queue of interface i is event, and the step
\* is the one in which the state machine of the interface processes it.
IntfProcesses(i, event) ==
    /\ if_queue[i] # << >>
    /\ Head(if_queue[i]).event = event
    /\ IntfStep(i)

\* No node TIE of node n names a link of interface i, in the next state.
NodeTiesWithoutIntf(n, i) ==
    \A d \in {South, North} :
        /\ my_node_ties'[n][d].header.seq_nr = my_node_tie_seq_nrs[n][d] + 1
        /\ \A sid \in DOMAIN my_node_ties'[n][d].element.neighbors :
              \A pair \in my_node_ties'[n][d].element.neighbors[sid].link_ids :
                  pair[1] # local_id[i]

\* C4: in state TWO_WAY or THREE_WAY the TIMER_TICK that makes the ticks
\* since the last LIE reach the hold time (the one the neighbor advertised,
\* 3 without one) emits HOLD_TIME_EXPIRED; and processing HOLD_TIME_EXPIRED
\* there puts the interface in ONE_WAY without a neighbor, marks the offer of
\* the interface removed and, out of THREE_WAY, regenerates the node TIEs
\* without the neighbor.
C4_HoldTimeExpiry ==
    [][ \A i \in Intfs(World) :
          /\ ( /\ if_state[i] \in {TWO_WAY, THREE_WAY}
               /\ time_ticks_since_lie_received[i] + 1 >= HoldTime(World, i)
               /\ IntfProcesses(i, "TIMER_TICK") )
             => \E k \in 1..Len(if_queue'[i]) :
                    if_queue'[i][k].event = "HOLD_TIME_EXPIRED"
          /\ ( /\ if_state[i] \in {TWO_WAY, THREE_WAY}
               /\ IntfProcesses(i, "HOLD_TIME_EXPIRED") )
             => /\ if_state'[i] = ONE_WAY
                /\ neighbor'[i] = None
                /\ \A k \in 1..Len(rx_offers'[intf_node[i]]) :
                      rx_offers'[intf_node[i]][k].interface_name = i
                          => rx_offers'[intf_node[i]][k].removed
                /\ if_state[i] = THREE_WAY => NodeTiesWithoutIntf(intf_node[i], i)
      ]_vars

\* The state machine of node n is in UPDATING_CLIENTS and has no event to
\* process.
ZtpQuiet(n) == ztp_state[n] = UPDATING_CLIENTS /\ ztp_queue[n] = << >>

\* The level the claim gives node n: the configured level, else 24 for a top
\* of fabric, else 0 for a leaf, else one below HAL and not below 0.
ClaimedLevel(n) ==
    IF configured_level[n] # NoLevel THEN configured_level[n]
    ELSE IF top_of_fabric_flag[n] THEN 24
    ELSE IF leaf_only[n] THEN 0
    ELSE IF highest_available_level[n] = NoLevel THEN NoLevel
    ELSE IF highest_available_level[n] - 1 > 0 THEN highest_available_level[n] - 1
    ELSE 0

\* C9: whenever the ZTP state machine is in UPDATING_CLIENTS with no pending
\* event, level_value() is the configured level if there is one, else 24 if
\* top of fabric is configured, else 0 if leaf is configured, else
\* max(HAL - 1, 0) if HAL is defined and undefined otherwise.
C9_LevelValue ==
    \A n \in Nodes(World) : ZtpQuiet(n) => level_value(World, n) = ClaimedLevel(n)

\* A node without a configured level whose only valid offer has level 24 has
\* derived level 23.
C9_Derives23 ==
    \E n \in Nodes(World) :
        /\ ZtpQuiet(n)
        /\ configured_level[n] = NoLevel /\ ~top_of_fabric_flag[n] /\ ~leaf_only[n]
        /\ Len(rx_offers[n]) = 1
        /\ ~rx_offers[n][1].removed /\ rx_offers[n][1].level = 24
        /\ level_value(World, n) = 23

\* The offers of node n that are candidates: not removed, not marked as
\* not a ZTP offer, and in state THREE_WAY where only those count.
Candidates(n, three_way_only) ==
    { k \in 1..Len(rx_offers[n]) :
        /\ ~rx_offers[n][k].removed
        /\ ~rx_offers[n][k].not_a_ztp_offer
        /\ three_way_only => rx_offers[n][k].state = THREE_WAY }

\* The level of the best candidate, which is the highest level there is.
BestLevel(n, three_way_only) ==
    IF Candidates(n, three_way_only) = {} THEN NoLevel
    ELSE CHOOSE l \in { rx_offers[n][k].level : k \in Candidates(n, three_way_only) } :
            \A k \in Candidates(n, three_way_only) : rx_offers[n][k].level <= l

\* C10: whenever the ZTP state machine is in UPDATING_CLIENTS with no pending
\* event, HAL is the level of the best offer that is neither removed nor
\* marked as not a ZTP offer, and HAT the level of the best such offer in
\* state THREE_WAY; each is undefined when there is no such offer.
C10_HalHatOfBestOffer ==
    \A n \in Nodes(World) :
        ZtpQuiet(n) =>
            /\ highest_available_level[n] = BestLevel(n, FALSE)
            /\ highest_adjacency_three_way[n] = BestLevel(n, TRUE)

\* The LIE that interface i emits in this state, as a neighbor on its link
\* receives it.
EmittedLie(i) ==
    action_send_lie([World EXCEPT !.link[i] = {i}, !.lie_wire[i] = << >>], i).lie_wire[i][1]

\* ZTP is active: no configured level, not top-of-fabric and not leaf.
ZtpActive(n) ==
    /\ configured_level[n] = NoLevel
    /\ ~top_of_fabric_flag[n]
    /\ ~leaf_only[n]

\* The offer stored for interface i is not removed and has the level HAL.
StoredOfferHasHal(i) ==
    \E k \in 1..Len(rx_offers[intf_node[i]]) :
        /\ rx_offers[intf_node[i]][k].interface_name = i
        /\ ~rx_offers[intf_node[i]][k].removed
        /\ rx_offers[intf_node[i]][k].level = highest_available_level[intf_node[i]]

\* C11: the LIE an interface emits carries not_a_ztp_offer exactly when ZTP
\* is active on the node and the offer stored for the interface is not
\* removed and has the level HAL of the node.
C11_NotAZtpOfferFlag ==
    \A i \in Intfs(World) :
        EmittedLie(i).not_a_ztp_offer <=> (ZtpActive(intf_node[i]) /\ StoredOfferHasHal(i))

\* An interface is about to send a LIE that carries the flag.
C11_SendsFlaggedLie ==
    \E i \in Intfs(World) :
        /\ if_queue[i] # << >>
        /\ Head(if_queue[i]).event = "SEND_LIE"
        /\ EmittedLie(i).not_a_ztp_offer

(***************************************************************************)
(* Node: the SPF looks for the neighbors of a node that it visits.         *)
(***************************************************************************)
\* constants.reverse_dir
reverse_dir(direction) ==
    IF direction = DIR_SOUTH THEN DIR_NORTH
    ELSE IF direction = DIR_NORTH THEN DIR_SOUTH
    ELSE direction

\* The node TIEs of a system in a direction that are in the database.
node_ties(w, n, direction, sysid) ==
    { w.ties[n][tie_id] :
        tie_id \in { id \in DOMAIN w.ties[n] : /\ id.direction = direction
                                               /\ id.originator = sysid
                                               /\ id.tietype = NodeTIEType } }

\* The pairs (nbr_system_id, nbr_tie_element) that node_neighbors yields.
node_neighbors(tie_set, nbr_direction) ==
    UNION { { <<sid, node_tie.element.neighbors[sid]>> :
                sid \in { s \in DOMAIN node_tie.element.neighbors :
                            CASE nbr_direction = DIR_SOUTH ->
                                    node_tie.element.neighbors[s].level < node_tie.element.level
                              [] nbr_direction = DIR_NORTH ->
                                    node_tie.element.neighbors[s].level > node_tie.element.level
                              [] OTHER ->
                                    node_tie.element.neighbors[s].level = node_tie.element.level } } :
            node_tie \in tie_set }

spf_use_tie_direction(w, n, visit_system_id, spf_direction) ==
    IF spf_direction = DIR_SOUTH THEN DIR_NORTH
    ELSE IF visit_system_id # w.system_id[n] THEN DIR_SOUTH
    ELSE DIR_NORTH

\* are_link_ids_bidirectional that is content with any link id on both sides.
are_link_ids_bidirectional_any(nbr_tie_element_1, nbr_tie_element_2) ==
    nbr_tie_element_1.link_ids # {} /\ nbr_tie_element_2.link_ids # {}

are_link_ids_bidirectional(nbr_tie_element_1, nbr_tie_element_2) ==
    \E id1 \in nbr_tie_element_1.link_ids : \E id2 \in nbr_tie_element_2.link_ids :
        id1[1] = id2[2] /\ id1[2] = id2[1]

is_neighbor_bidirectional(w, n, visit_system_id, nbr_system_id, nbr_tie_element, spf_direction) ==
    \E nbr_nbr \in node_neighbors(node_ties(w, n, reverse_dir(spf_direction), nbr_system_id),
                                  reverse_dir(spf_direction)) :
        /\ nbr_nbr[1] = visit_system_id
        /\ are_link_ids_bidirectional(nbr_tie_element, nbr_nbr[2])

\* The neighbors for which spf_add_neighbor_candidates makes a destination
\* and calls spf_consider_candidate_dest, with the visited node as the
\* predecessor.
spf_add_neighbor_candidates(w, n, node_system_id, tie_set, spf_direction) ==
    { nbr[1] : nbr \in { x \in node_neighbors(tie_set, spf_direction) :
                           is_neighbor_bidirectional(w, n, node_system_id, x[1], x[2],
                                                     spf_direction) } }

\* spf_add_candidates_from_node, for the neighbors.
spf_add_candidates_from_node(w, n, node_system_id, spf_direction) ==
    spf_add_neighbor_candidates(
        w, n, node_system_id,
        node_ties(w, n, spf_use_tie_direction(w, n, node_system_id, spf_direction),
                  node_system_id),
        spf_direction)

(***************************************************************************)
(* SpecFn: better_offer, compare_offers and is_received_lie_acceptable     *)
(* applied on their own.  The initial state holds the arguments in fn_in,  *)
(* the one step of a behavior applies the function and puts what it        *)
(* returns in fn_out.  The node is node 1 with its interface 1.            *)
(***************************************************************************)
\* The offers interface_name can have put in the table of the node: live, or
\* removed, and then possibly marked as not a ZTP offer.  An offer of level
\* 0 or without a level is never live.
FnOffers(interface_name) ==
    { [RxOffer(interface_name, sysid, level, nazo, state) EXCEPT !.removed = removed] :
        sysid \in {2, 3}, level \in 1..MaxFnLevel, state \in {ONE_WAY, THREE_WAY},
        nazo \in BOOLEAN, removed \in BOOLEAN } \
    { [RxOffer(interface_name, sysid, level, TRUE, state) EXCEPT !.removed = FALSE] :
        sysid \in {2, 3}, level \in 1..MaxFnLevel, state \in {ONE_WAY, THREE_WAY} }

FnBetterOfferArgs ==
    [ f : {"better_offer"}, offer1 : FnOffers(1), offer2 : FnOffers(2),
      three_way_only : BOOLEAN ]

FnCompareOffersArgs ==
    [ f : {"compare_offers"},
      rx_offers : { <<offer1, offer2>> : offer1 \in FnOffers(1), offer2 \in FnOffers(2) } ]

\* The levels of the node and the LIEs it is given.  HAT is the level of an
\* offer, which is not 0, and is not above HAL; the derived level is the one
\* action_update_all_lie_fsms derives from HAL.
FnLevelSymbols ==
    { LevelWord("undefined"), LevelWord("leaf"), LevelWord("leaf-2-leaf"),
      LevelWord("top-of-fabric"), LevelInt(0), LevelInt(1), LevelInt(2) }

FnLIEs ==
    LET base(level, l2l) == LIEPacket(2, level, 1, NoId, NoId, get_mtu, FALSE, l2l)
        good == base(1, FALSE)
    IN  { base(level, l2l) : level \in {NoLevel} \cup 0..MaxFnLevel, l2l \in BOOLEAN }
        \cup { [good EXCEPT !.header = FALSE], [good EXCEPT !.major_version = 2],
               [good EXCEPT !.sender = 0], [good EXCEPT !.sender = 1],
               [good EXCEPT !.link_mtu_size = 1500], [good EXCEPT !.pod = 1] }

FnAcceptableArgs ==
    { args \in [ f : {"is_received_lie_acceptable"}, level_symbol : FnLevelSymbols,
                 hal : {NoLevel} \cup 1..MaxFnLevel, hat : {NoLevel} \cup 1..MaxFnLevel,
                 protocol_packet : FnLIEs ] :
        args.hat = NoLevel \/ args.hat <= args.hal }

\* Node 1 with the level symbol, HAL and HAT of the arguments.
FnNode(w, args) ==
    action_update_all_lie_fsms(
        action_store_level(
            [w EXCEPT !.highest_available_level[1] = args.hal,
                      !.highest_adjacency_three_way[1] = args.hat],
            1, args.level_symbol),
        1)

FnReturn(result) ==
    /\ fn_out = None
    /\ fn_out' = [result |-> result]
    /\ UNCHANGED << fn_in, link_clock, spf >>
    /\ Commit(World)

\* Three headers of one TIE-ID.  The lifetimes are 0 (a request), and
\* lifetimes that differ by exactly lifetime_diff2ignore (1 and 301, 301
\* and 601, 302 and 602), by one second more (1 and 302, 301 and 602) and
\* by far more.
FnLifetimes == {0, 1, 301, 302, 601, 602}

FnAgeHeaders ==
    { TIEHeader(TIEID(South, 2, NodeTIEType, MY_TIE_NR), seq_nr, remaining_lifetime) :
        seq_nr \in 1..MaxFnSeqNr, remaining_lifetime \in FnLifetimes }

FnCompareAgeArgs ==
    [ f : {"compare_tie_header_age"}, header1 : FnAgeHeaders, header2 : FnAgeHeaders,
      header3 : FnAgeHeaders ]

\* The arguments of is_flood_allowed: the header of a TIE of system 1, 2 or
\* 3, the level of its originator as the database knows it (none without the
\* TIE), the direction of the receiver seen from the sender ("none" when it
\* is not known), and the sender, system 1, with its level.
FnFloodAllowedArgs ==
    [ f : {"is_flood_allowed"},
      tie_header : { TIEHeader(TIEID(direction, originator, tietype, MY_TIE_NR), 1,
                               default_lifetime) :
                       direction \in {South, North}, originator \in 1..3,
                       tietype \in {NodeTIEType, PrefixTIEType} },
      originator_level : {NoLevel} \cup 1..MaxFnLevel,
      to_node_direction : {DIR_SOUTH, DIR_NORTH, DIR_EAST_WEST, "none"},
      to_node_system_id : {2},
      from_node_system_id : {1},
      from_node_level : 1..MaxFnLevel,
      from_node_is_top_of_fabric : BOOLEAN ]

\* Node 1 with a database that holds the TIE of the header as a node TIE of
\* the originator's level, or nothing when that level is not known.
FnFloodNode(w, args) ==
    [w EXCEPT !.ties[1] =
        IF args.originator_level = NoLevel THEN << >>
        ELSE args.tie_header.tieid :>
                 make_node_tie_packet(args.originator_level,
                                      args.tie_header.tieid.direction,
                                      args.tie_header.tieid.originator, MY_TIE_NR, 1,
                                      default_lifetime)]

\* The arguments of spf_add_candidates_from_node: the SPF of node 1 visits
\* system 1 or 3, whose node TIE lists system 2 at some level with some link
\* ids; the database holds no node TIE of system 2, or one in either
\* direction that lists the visited system or system 4.
FnLinkIds == { {<<1, 1>>}, {<<1, 2>>}, {<<2, 1>>}, {<<1, 1>>, <<2, 2>>} }

FnNodeTie(direction, originator, level, nbr, nbr_level, link_ids) ==
    [make_node_tie_packet(level, direction, originator, MY_TIE_NR, 1, default_lifetime)
        EXCEPT !.element.neighbors =
                   nbr :> [level |-> nbr_level, cost |-> 1, link_ids |-> link_ids,
                           bandwidth |-> 100]]

FnSpfArgs ==
    [ f : {"spf_add_candidates_from_node"},
      spf_direction : {DIR_SOUTH, DIR_NORTH},
      node_system_id : {1, 3},
      nbr_level : {1, 3},
      link_ids : FnLinkIds,
      nbr_tie : {None} \cup
                { FnNodeTie(direction, 2, level, nbr_nbr, 2, link_ids) :
                    direction \in {South, North}, level \in {1, 3}, nbr_nbr \in {1, 3, 4},
                    link_ids \in FnLinkIds } ]

\* Node 1 with the database of the arguments: the node TIE of the visited
\* system, at level 2, in the direction in which the SPF reads it, and the
\* node TIE of system 2.
FnSpfVisitedTie(w, args) ==
    FnNodeTie(spf_use_tie_direction(w, 1, args.node_system_id, args.spf_direction),
              args.node_system_id, 2, 2, args.nbr_level, args.link_ids)

FnSpfNode(w, args) ==
    [w EXCEPT !.ties[1] =
        (FnSpfVisitedTie(w, args).header.tieid :> FnSpfVisitedTie(w, args))
        @@ (IF args.nbr_tie = None THEN << >>
            ELSE args.nbr_tie.header.tieid :> args.nbr_tie)]

\* The arguments of generate_tide_packet: the level of node 1, the level of
\* its neighbor 2 and the level of a third system, and up to MaxTideTies
\* TIEs in the database of node 1, out of the Node and the Prefix TIEs of
\* the three systems in both directions.
MaxTideTies == 3

FnTideTieIds ==
    { TIEID(direction, originator, tietype, MY_TIE_NR) :
        direction \in {South, North}, originator \in 1..3,
        tietype \in {NodeTIEType, PrefixTIEType} }

FnTideArgs ==
    [ f : {"generate_tide_packet"},
      my_level : {1, 2, top_of_fabric_level},
      neighbor_level : {1, 2, top_of_fabric_level},
      third_level : {1, 2},
      tie_ids : { ids \in SUBSET FnTideTieIds : Cardinality(ids) <= MaxTideTies } ]

FnTideLevel(args, originator) ==
    CASE originator = 1 -> args.my_level
      [] originator = 2 -> args.neighbor_level
      [] OTHER -> args.third_level

FnTideNode(w, args) ==
    [w EXCEPT !.ties[1] =
        [ tieid \in args.tie_ids |->
            IF tieid.tietype = NodeTIEType
            THEN make_node_tie_packet(FnTideLevel(args, tieid.originator), tieid.direction,
                                      tieid.originator, tieid.tie_nr, 1, default_lifetime)
            ELSE make_prefix_tie_packet(tieid.direction, tieid.originator, tieid.tie_nr, 1,
                                        default_lifetime) ]]

\* Interface.neighbor_direction for the two levels.
FnTideDirection(args) ==
    IF args.neighbor_level > args.my_level THEN DIR_NORTH
    ELSE IF args.neighbor_level < args.my_level THEN DIR_SOUTH
    ELSE DIR_EAST_WEST

CallBetterOffer ==
    /\ fn_in.f = "better_offer"
    /\ FnReturn(better_offer(fn_in.offer1, fn_in.offer2, fn_in.three_way_only))

CallCompareOffers ==
    /\ fn_in.f = "compare_offers"
    /\ FnReturn(compare_offers([World EXCEPT !.rx_offers[1] = fn_in.rx_offers], 1).rx_offers[1])

CallIsReceivedLieAcceptable ==
    /\ fn_in.f = "is_received_lie_acceptable"
    /\ FnReturn([ verdict |-> is_received_lie_acceptable(FnNode(World, fn_in), 1,
                                                         fn_in.protocol_packet),
                  level_value |-> level_value(FnNode(World, fn_in), 1),
                  leaf_2_leaf |-> FnNode(World, fn_in).leaf_2_leaf[1] ])

\* The comparisons of each two of the three headers: r12 is
\* compare_tie_header_age(header1, header2), and so on.
CallCompareTieHeaderAge ==
    /\ fn_in.f = "compare_tie_header_age"
    /\ FnReturn([ r12 |-> compare_tie_header_age(fn_in.header1, fn_in.header2),
                  r21 |-> compare_tie_header_age(fn_in.header2, fn_in.header1),
                  r23 |-> compare_tie_header_age(fn_in.header2, fn_in.header3),
                  r13 |-> compare_tie_header_age(fn_in.header1, fn_in.header3) ])

CallIsFloodAllowed ==
    /\ fn_in.f = "is_flood_allowed"
    /\ FnReturn(is_flood_allowed(FnFloodNode(World, fn_in), 1, fn_in.tie_header,
                                 fn_in.to_node_direction, fn_in.to_node_system_id,
                                 fn_in.from_node_system_id, fn_in.from_node_level,
                                 fn_in.from_node_is_top_of_fabric))

CallSpfAddCandidatesFromNode ==
    /\ fn_in.f = "spf_add_candidates_from_node"
    /\ FnReturn(spf_add_candidates_from_node(FnSpfNode(World, fn_in), 1,
                                             fn_in.node_system_id, fn_in.spf_direction))

CallGenerateTidePacket ==
    /\ fn_in.f = "generate_tide_packet"
    /\ FnReturn(generate_tide_packet(FnTideNode(World, fn_in), 1, FnTideDirection(fn_in), 2,
                                     fn_in.neighbor_level,
                                     fn_in.neighbor_level = top_of_fabric_level,
                                     fn_in.my_level,
                                     fn_in.my_level = top_of_fabric_level))

InitFn ==
    /\ IsWorld(Started(<<NodeConfig(1, LevelWord("undefined"))>>, <<1>>, <<{}>>))
    /\ fn_in \in FnBetterOfferArgs \cup FnCompareOffersArgs \cup FnAcceptableArgs
                \cup FnCompareAgeArgs \cup FnFloodAllowedArgs
                \cup FnSpfArgs \cup FnTideArgs
    /\ fn_out = None
    /\ link_clock = None
    /\ spf = None

NextFn ==
    \/ CallBetterOffer
    \/ CallCompareOffers
    \/ CallIsReceivedLieAcceptable
    \/ CallCompareTieHeaderAge
    \/ CallIsFloodAllowed
    \/ CallSpfAddCandidatesFromNode
    \/ CallGenerateTidePacket

SpecFn == InitFn /\ [][NextFn]_vars

(***************************************************************************)
(* Properties of SpecFn.                                                   *)
(***************************************************************************)
FnReturned(f) == fn_in.f = f /\ fn_out # None

\* The LIE of the arguments passes the header, version, system id, loopback,
\* MTU and PoD checks, and the level of its sender and the level of this
\* node are defined.
FnLiePassesChecks ==
    /\ fn_in.protocol_packet.header
    /\ fn_in.protocol_packet.major_version = RIFT_MAJOR_VERSION
    /\ fn_in.protocol_packet.sender # 0
    /\ fn_in.protocol_packet.sender # system_id[1]
    /\ fn_in.protocol_packet.link_mtu_size = get_mtu
    /\ fn_in.protocol_packet.level # NoLevel
    /\ fn_out.result.level_value # NoLevel

\* One of the four rules of the claim holds for this node at level my_level
\* and a LIE from level remote_level.  HAT is not greater than the level of
\* the sender when there is no HAT.
FnSomeRuleHolds(my_level, remote_level) ==
    \/ /\ my_level = 0
       /\ fn_in.hat = NoLevel \/ fn_in.hat <= remote_level
    \/ my_level # 0 /\ remote_level = 0
    \/ /\ my_level = 0 /\ remote_level = 0
       /\ fn_out.result.leaf_2_leaf /\ fn_in.protocol_packet.l2l
    \/ /\ my_level # 0 /\ remote_level # 0
       /\ remote_level - my_level <= 1 /\ my_level - remote_level <= 1

FnCandidate(offer) == ~offer.removed /\ ~offer.not_a_ztp_offer

\* offer is the one the claim ranks first of the candidates offer1 and
\* offer2: the higher level, and at the same level the smaller system id.
FnRanksFirst(offer, offer1, offer2) ==
    /\ offer \in {offer1, offer2}
    /\ offer.level >= offer1.level /\ offer.level >= offer2.level
    /\ offer1.level = offer2.level =>
          (offer.system_id <= offer1.system_id /\ offer.system_id <= offer2.system_id)

\* C8: of two candidate offers better_offer returns the one with the higher
\* level, in either order of its arguments, and at equal levels the one with
\* the smaller system id; and the offer compare_offers marks best has the
\* highest level of all candidate offers.
C8_BetterOfferRanksByLevel ==
    /\ ( /\ FnReturned("better_offer")
         /\ ~fn_in.three_way_only
         /\ FnCandidate(fn_in.offer1) /\ FnCandidate(fn_in.offer2) )
       => FnRanksFirst(fn_out.result, fn_in.offer1, fn_in.offer2)
    /\ FnReturned("compare_offers") =>
          \A k \in 1..Len(fn_out.result) :
              fn_out.result[k].best =>
                  \A j \in 1..Len(fn_in.rx_offers) :
                      FnCandidate(fn_in.rx_offers[j]) =>
                          fn_in.rx_offers[j].level <= fn_out.result[k].level

(***************************************************************************)
(* SpecFlood: the node with system id 1 at level 1 and its interface,      *)
(* which hears the LIEs of system 2 at level 2 that reflect it and, while  *)
(* the flood port is open, the TIEs and TIREs of that neighbor.            *)
(***************************************************************************)
\* The node TIE of the neighbor going south, the node TIE of this node going
\* south, and a prefix TIE going north with this node as its originator,
\* which this node does not originate.
FloodTieIds ==
    { TIEID(South, 2, NodeTIEType, MY_TIE_NR),
      TIEID(South, 1, NodeTIEType, MY_TIE_NR),
      TIEID(North, 1, PrefixTIEType, MY_TIE_NR) }

FloodPacket(tie, tire) ==
    [sender |-> 2, major_version |-> RIFT_MAJOR_VERSION, tie |-> tie, tide |-> None,
     tire |-> tire]

FloodTie(tieid, seq_nr) ==
    IF tieid.tietype = NodeTIEType
    THEN make_node_tie_packet(tieid.originator, tieid.direction, tieid.originator,
                              tieid.tie_nr, seq_nr, default_lifetime)
    ELSE make_prefix_tie_packet(tieid.direction, tieid.originator, tieid.tie_nr,
                                seq_nr, default_lifetime)

EnvTIEs ==
    { FloodPacket(FloodTie(tieid, seq_nr), None) :
        tieid \in FloodTieIds, seq_nr \in 1..MaxFloodSeqNr }

TIREPacket(headers) == [headers |-> headers]

\* A header with sequence number 0 and no lifetime left asks for the TIE.
FloodRequestHeaders == { TIEHeader(tieid, 0, 0) : tieid \in FloodTieIds }

FloodHeaders ==
    FloodRequestHeaders
    \cup { TIEHeader(tieid, seq_nr, default_lifetime) :
             tieid \in FloodTieIds, seq_nr \in 1..MaxFloodSeqNr }

EnvTIREs ==
    { FloodPacket(None, TIREPacket(<< header >>)) : header \in FloodHeaders }
    \cup { FloodPacket(None, TIREPacket(headers)) :
             headers \in { hs \in FloodRequestHeaders \X FloodRequestHeaders :
                             hs[1].tieid # hs[2].tieid } }

EnvReflectingLie(i) ==
    /\ ~crashed[intf_node[i]]
    /\ Pending(World, intf_node[i]) < MaxPending
    /\ Finish(receive_lie_message(World, i,
                                  LIEPacket(2, 2, 1, 1, local_id[i], get_mtu, FALSE, TRUE)),
              intf_node[i])

\* The same LIE of system 2 without the reflection of this interface: the
\* neighbor no longer hears this node.
EnvUnreflectingLie(i) ==
    /\ ~crashed[intf_node[i]]
    /\ Pending(World, intf_node[i]) < MaxPending
    /\ Finish(receive_lie_message(World, i,
                                  LIEPacket(2, 2, 1, NoId, NoId, get_mtu, FALSE, TRUE)),
              intf_node[i])

\* The flood port of the interface is open from action_start_flooding to
\* action_stop_flooding, as long as the timer that serves the queues runs.
ReceiveTie(i) ==
    /\ ~crashed[intf_node[i]]
    /\ service_queues_timer[i]
    /\ \E message \in EnvTIEs :
          Finish(receive_flood_message(World, i, message), intf_node[i])

ReceiveTire(i) ==
    /\ ~crashed[intf_node[i]]
    /\ service_queues_timer[i]
    /\ \E message \in EnvTIREs :
          Finish(receive_flood_message(World, i, message), intf_node[i])

InitFlood ==
    /\ IsWorld(Started(<<NodeConfig(1, LevelInt(1))>>, <<1>>, <<{}>>))
    /\ fn_in = None
    /\ fn_out = None
    /\ link_clock = None
    /\ spf = None

NextFlood ==
    \/ \E i \in Intfs(World) : EnvReflectingLie(i)
    \/ \E i \in Intfs(World) : EnvUnreflectingLie(i)
    \/ \E i \in Intfs(World) : ReceiveTie(i)
    \/ \E i \in Intfs(World) : ReceiveTire(i)
    \/ \E i \in Intfs(World) : IntfStep(i)
    \/ \E n \in Nodes(World) : NodeStep(n)

SpecFlood == InitFlood /\ [][NextFlood]_vars

(***************************************************************************)
(* Properties of SpecFlood.                                                *)
(***************************************************************************)
\* The queues of interface i that hold a header with this TIE-ID.
QueuesHolding(i, tieid) ==
    { q \in {"tx", "rtx", "req", "ack"} :
        HeaderIndex(CASE q = "tx" -> ties_tx[i] [] q = "rtx" -> ties_rtx[i]
                      [] q = "req" -> ties_req[i] [] OTHER -> ties_ack[i], tieid) # 0 }

\* C2: on every interface every TIE-ID is in at most one of the four flood
\* queues TX, RTX, REQ and ACK, whatever TIEs and TIREs were received.
C2_OneQueuePerTieId ==
    \A i \in Intfs(World) : \A tieid \in FloodTieIds :
        Cardinality(QueuesHolding(i, tieid)) <= 1

\* The TIE-ID of the Node TIE that node n originates for a direction.
OwnNodeTieId(n, direction) == TIEID(direction, system_id[n], NodeTIEType, MY_TIE_NR)

\* C14: in every step in which the database holds the own Node TIE of a
\* direction before and after, the seq_nr of that TIE does not decrease,
\* and a step that regenerates the Node TIE (it takes the next of
\* my_node_tie_seq_nrs) stores a seq_nr strictly greater than the one of
\* the TIE it replaces.
C14_OwnNodeTieSeqNrNeverDecreases ==
    [][\A n \in Nodes(World) : \A direction \in {South, North} :
          (/\ OwnNodeTieId(n, direction) \in DOMAIN ties[n]
           /\ OwnNodeTieId(n, direction) \in DOMAIN ties'[n])
          => /\ ties'[n][OwnNodeTieId(n, direction)].header.seq_nr
                   >= ties[n][OwnNodeTieId(n, direction)].header.seq_nr
             /\ my_node_tie_seq_nrs'[n][direction] # my_node_tie_seq_nrs[n][direction]
                   => ties'[n][OwnNodeTieId(n, direction)].header.seq_nr
                          > ties[n][OwnNodeTieId(n, direction)].header.seq_nr]_vars

(***************************************************************************)
(* SpecLink: two nodes with one interface each on one link that loses no   *)
(* packet.  The timers of the two interfaces expire once every second, in  *)
(* either order, and what a second brings about (the LIEs sent and the     *)
(* events they cause) is processed before the next second begins.          *)
(***************************************************************************)
LinkLevels ==
    { << LevelWord("leaf"), LevelWord("leaf") >>,
      << LevelWord("leaf"), LevelInt(2) >>,
      << LevelInt(1), LevelInt(1) >>,
      << LevelInt(1), LevelInt(2) >>,
      << LevelInt(1), LevelInt(3) >> }

LinkQuiet ==
    /\ \A i \in Intfs(World) : if_queue[i] = << >> /\ lie_wire[i] = << >>
    /\ \A n \in Nodes(World) : ztp_queue[n] = << >>

\* The LIE at the head of the wire reaches the interface.
DeliverLie(i) ==
    /\ ~crashed[intf_node[i]]
    /\ lie_wire[i] # << >>
    /\ link_clock' = [link_clock EXCEPT !.since[i] = IF @ = NoTicks THEN 0 ELSE @]
    /\ UNCHANGED << fn_in, fn_out, spf >>
    /\ Ended(receive_lie_message([World EXCEPT !.lie_wire[i] = Tail(@)], i,
                                 Head(lie_wire[i])),
             intf_node[i])

\* The one second timer of interface i expires.
LinkTick(i) ==
    /\ ~crashed[intf_node[i]]
    /\ i \notin link_clock.ticked
    /\ link_clock.ticked = {} => LinkQuiet
    /\ link_clock' =
          [ticked |-> IF link_clock.ticked \cup {i} = Intfs(World) THEN {}
                      ELSE link_clock.ticked \cup {i},
           since |-> [link_clock.since EXCEPT ![i] =
                         IF @ = NoTicks \/ @ = MaxLinkTicks THEN @ ELSE @ + 1]]
    /\ UNCHANGED << fn_in, fn_out, spf >>
    /\ Ended(one_second_timer_expires(World, i), intf_node[i])

InitLink ==
    /\ \E levels \in LinkLevels :
          IsWorld(Started(<<NodeConfig(1, levels[1]), NodeConfig(2, levels[2])>>,
                          <<1, 2>>, <<{2}, {1}>>))
    /\ fn_in = None
    /\ fn_out = None
    /\ link_clock = [ticked |-> {}, since |-> [i \in {1, 2} |-> NoTicks]]
    /\ spf = None

NextLink ==
    \/ \E i \in Intfs(World) : LinkTick(i)
    \/ \E i \in Intfs(World) : DeliverLie(i)
    \/ \E i \in Intfs(World) : IntfStep(i)
    \/ \E n \in Nodes(World) : NodeStep(n)

SpecLink == InitLink /\ [][NextLink]_vars

\* Every timer keeps expiring and every process keeps running: the program
\* never stops taking steps.  In SpecLink some step is possible in every
\* state, so that this is weak fairness of NextLink, WF_vars(NextLink).
SpecLinkFair == SpecLink /\ []<><<NextLink>>_vars

(***************************************************************************)
(* Properties of SpecLinkFair.                                             *)
(***************************************************************************)
\* The levels of the two nodes let each accept the LIEs of the other: one of
\* them is a leaf, or the levels differ by at most one.
AcceptableLevels ==
    \/ level_value(World, 1) = leaf_level
    \/ level_value(World, 2) = leaf_level
    \/ Abs(level_value(World, 1) - level_value(World, 2)) <= 1

BothThreeWay == \A i \in Intfs(World) : if_state[i] = THREE_WAY

\* C3: two nodes on a link without loss, with levels that let each accept
\* the LIEs of the other, both end in THREE_WAY; an interface is in THREE_WAY
\* when its timer has expired holdtime + 1 times since its first LIE; and an
\* interface in THREE_WAY stays there.
C3_ThreeWayInTimeAndStays ==
    /\ AcceptableLevels => <>[]BothThreeWay
    /\ [](AcceptableLevels =>
            \A i \in Intfs(World) :
                link_clock.since[i] >= lie_holdtime + 1 => if_state[i] = THREE_WAY)
    /\ [][AcceptableLevels =>
            \A i \in Intfs(World) :
                if_state[i] = THREE_WAY => if_state'[i] = THREE_WAY]_vars

\* Both interfaces are in THREE_WAY, holdtime + 1 seconds after their first
\* LIE.
C3_BothThreeWayAfterHoldTime ==
    /\ AcceptableLevels
    /\ BothThreeWay
    /\ \A i \in Intfs(World) : link_clock.since[i] >= lie_holdtime + 1

\* C7: between two nodes at level 0 that do not support leaf-2-leaf no
\* interface leaves ONE_WAY, and every LIE is rejected with "Level mismatch".
C7_TwoLeavesStayOneWay ==
    (\A n \in Nodes(World) : level_value(World, n) = leaf_level /\ ~leaf_2_leaf[n])
        => \A i \in Intfs(World) :
              /\ if_state[i] = ONE_WAY
              /\ lie_accept_or_reject_rule[i] \in {"-", "Level mismatch"}

(***************************************************************************)
(* compare_tie_header_age applied to headers of one TIE-ID (SpecFn).       *)
(***************************************************************************)
\* What the rules of the age comparison give for header1 against header2:
\* the higher seq_nr is newer; at equal seq_nr a header with a lifetime
\* that is not 0 is newer than one with lifetime 0; otherwise the longer
\* lifetime is newer when the lifetimes differ by more than
\* lifetime_diff2ignore, and the headers are of the same age when not.
AgeByRules(header1, header2) ==
    LET lifetime1 == header1.remaining_lifetime
        lifetime2 == header2.remaining_lifetime
    IN  CASE header1.seq_nr > header2.seq_nr -> 1
          [] header1.seq_nr < header2.seq_nr -> 0 - 1
          [] lifetime1 # 0 /\ lifetime2 = 0 -> 1
          [] lifetime1 = 0 /\ lifetime2 # 0 -> 0 - 1
          [] lifetime1 - lifetime2 > lifetime_diff2ignore -> 1
          [] lifetime2 - lifetime1 > lifetime_diff2ignore -> 0 - 1
          [] OTHER -> 0

C13_AgeTransitive ==
    FnReturned("compare_tie_header_age") =>
        /\ (fn_out.result.r12 <= 0 /\ fn_out.result.r23 <= 0) => fn_out.result.r13 <= 0
        /\ (fn_out.result.r12 >= 0 /\ fn_out.result.r23 >= 0) => fn_out.result.r13 >= 0
        /\ (fn_out.result.r12 = 0 /\ fn_out.result.r23 = 0) => fn_out.result.r13 = 0

(***************************************************************************)
(* The TIEs that the node originates (Spec).                               *)
(***************************************************************************)
\* The neighbor systems of the THREE_WAY interfaces of node n whose neighbor
\* lies in the direction dir of the node.
ThreeWayNeighborsInDirection(n, dir) ==
    { neighbor[i].system_id :
        i \in { j \in IntfsOf(World, n) : /\ if_state[j] = THREE_WAY
                                          /\ neighbor[j] # None
                                          /\ neighbor_direction(World, j) = dir } }

\* C15: whenever no event is pending for the LIE FSM of any interface of
\* the node, the neighbors of the own Node TIE of direction South in the
\* database are exactly the neighbor systems of the THREE_WAY interfaces
\* whose neighbor lies to the south, and those of the own Node TIE of
\* direction North exactly those whose neighbor lies to the north.
C15_NodeTieNeighborsPerDirection ==
    \A n \in Nodes(World) :
        (~crashed[n] /\ \A i \in IntfsOf(World, n) : if_queue[i] = << >>)
        => /\ DOMAIN ties[n][OwnNodeTieId(n, South)].element.neighbors
                  = ThreeWayNeighborsInDirection(n, DIR_SOUTH)
           /\ DOMAIN ties[n][OwnNodeTieId(n, North)].element.neighbors
                  = ThreeWayNeighborsInDirection(n, DIR_NORTH)

\* The TIE-ID of the South Prefix TIE that node n originates.
OwnSouthPrefixTieId(n) == TIEID(South, system_id[n], PrefixTIEType, MY_TIE_NR)

\* The database of node n holds the South Prefix TIE of the node, with the
\* default route in it.
DefaultRouteInDb(n) ==
    /\ OwnSouthPrefixTieId(n) \in DOMAIN ties[n]
    /\ "0.0.0.0/0" \in ties[n][OwnSouthPrefixTieId(n)].element.prefixes

\* The policy for originating a default route, in the current state.
OriginationPolicyHolds(n) ==
    /\ ~is_overloaded(World, n)
    /\ \E i \in IntfsOf(World, n) :
          /\ if_state[i] = THREE_WAY
          /\ neighbor_direction(World, i) \in {DIR_SOUTH, DIR_EAST_WEST}
    /\ \/ other_nodes_are_overloaded(World, n)
       \/ other_nodes_have_no_n_adjacency(World, n)
       \/ have_n_spf_route_to_default(World, n)

\* C16: whenever no event is pending, the South Prefix TIE of the node in
\* the database contains the default route if and only if the node is not
\* overloaded, has a THREE_WAY adjacency to the south or east-west, and the
\* other nodes of its level are all overloaded, or all without a north
\* adjacency, or the node has a northbound route to the default.
C16_DefaultRouteIffPolicy ==
    \A n \in Nodes(World) :
        (~crashed[n] /\ Pending(World, n) = 0)
        => (DefaultRouteInDb(n) <=> OriginationPolicyHolds(n))

(***************************************************************************)
(* SpecFlush: the node with system id 1, at level 1 or at level 3, and its *)
(* interface, which hears the LIEs of system 2 at level 2 that reflect it  *)
(* and, while the flood port is open, TIEs that name this node as their    *)
(* originator.                                                             *)
(***************************************************************************)
\* The levels of the node: below the neighbor and above it.
FlushLevels == {1, 3}

\* A prefix TIE going north, a prefix TIE going south and a second node TIE
\* going south, all with this node as their originator.
FlushTieIds ==
    { TIEID(North, 1, PrefixTIEType, MY_TIE_NR),
      TIEID(South, 1, PrefixTIEType, MY_TIE_NR),
      TIEID(South, 1, NodeTIEType, MY_TIE_NR + 1) }

OwnTIEs ==
    { FloodPacket(FloodTie(tieid, seq_nr), None) :
        tieid \in FlushTieIds, seq_nr \in 1..MaxFloodSeqNr }

ReceiveTieMessage(i, message) ==
    /\ ~crashed[intf_node[i]]
    /\ service_queues_timer[i]
    /\ Finish(receive_flood_message(World, i, message), intf_node[i])

ReceiveOwnTie(i) == \E message \in OwnTIEs : ReceiveTieMessage(i, message)

InitFlush ==
    /\ \E level \in FlushLevels :
          IsWorld(Started(<<NodeConfig(1, LevelInt(level))>>, <<1>>, <<{}>>))
    /\ fn_in = None
    /\ fn_out = None
    /\ link_clock = None
    /\ spf = None

NextFlush ==
    \/ \E i \in Intfs(World) : EnvReflectingLie(i)
    \/ \E i \in Intfs(World) : ReceiveOwnTie(i)
    \/ \E i \in Intfs(World) : IntfStep(i)
    \/ \E n \in Nodes(World) : NodeStep(n)

SpecFlush == InitFlush /\ [][NextFlush]_vars

(***************************************************************************)
(* Properties of SpecFlush.                                                *)
(***************************************************************************)
\* The TIE of the message names the node of interface i as its originator
\* and its TIE-ID is not in the database of the node.
FlushCase(i, message) ==
    /\ message.tie.header.tieid.originator = system_id[intf_node[i]]
    /\ message.tie.header.tieid \notin DOMAIN ties[intf_node[i]]

\* The header of the empty TIE that answers the header of a received TIE.
FlushHeader(rx_tie_header) ==
    TIEHeader(rx_tie_header.tieid, rx_tie_header.seq_nr + 1, 60)

\* The database of the node of interface i holds the empty TIE that answers
\* the received header: no neighbors in a node TIE, no prefixes in a prefix
\* TIE.
FlushTieStored(i, rx_tie_header) ==
    /\ rx_tie_header.tieid \in DOMAIN ties[intf_node[i]]
    /\ ties[intf_node[i]][rx_tie_header.tieid].header = FlushHeader(rx_tie_header)
    /\ IF rx_tie_header.tieid.tietype = NodeTIEType
       THEN ties[intf_node[i]][rx_tie_header.tieid].element.neighbors = << >>
       ELSE ties[intf_node[i]][rx_tie_header.tieid].element.prefixes = {}

\* The transmit queue of interface i holds the header of that empty TIE.
FlushTieScheduled(i, rx_tie_header) ==
    /\ HeaderIndex(ties_tx[i], rx_tie_header.tieid) # 0
    /\ ties_tx[i][HeaderIndex(ties_tx[i], rx_tie_header.tieid)] = FlushHeader(rx_tie_header)

\* The flood filter of interface i lets the TIE of this header go to the
\* neighbor.
FlushTieInScope(i, rx_tie_header) == ~is_flood_filtered(World, i, rx_tie_header)

ScopeMatrix(args) ==
    LET tieid == args.tie_header.tieid
        self_originated == tieid.originator = args.from_node_system_id
        to == args.to_node_direction
    IN  IF tieid.direction = South /\ tieid.tietype = NodeTIEType
        THEN \/ to = DIR_SOUTH /\ args.originator_level = args.from_node_level
             \/ /\ to = DIR_NORTH
                /\ args.originator_level # NoLevel
                /\ args.originator_level > args.from_node_level
             \/ to = DIR_EAST_WEST /\ ~args.from_node_is_top_of_fabric
        ELSE IF tieid.direction = South
        THEN \/ to = DIR_SOUTH /\ self_originated
             \/ to = DIR_NORTH /\ args.to_node_system_id = tieid.originator
             \/ to = DIR_EAST_WEST /\ self_originated /\ ~args.from_node_is_top_of_fabric
        ELSE \/ to = DIR_NORTH
             \/ to = DIR_EAST_WEST /\ args.from_node_is_top_of_fabric

\* C18: is_flood_allowed allows exactly what the scope matrix allows, for
\* every TIE direction, TIE type and direction of the receiver: a Node S-TIE
\* south iff the originator's level is the sender's, north iff it is above
\* the sender's, east-west iff the sender is not top of fabric; another
\* S-TIE south iff self-originated, north iff the receiver is the
\* originator, east-west iff self-originated and the sender is not top of
\* fabric; an N-TIE never south, always north, east-west iff the sender is
\* top of fabric; nothing when the direction of the receiver is not known.
C18_FloodAllowedIsScopeMatrix ==
    FnReturned("is_flood_allowed") => (fn_out.result <=> ScopeMatrix(fn_in))

\* is_flood_allowed has refused to send a Node S-TIE north from the level of
\* its originator.
C18_NodeSTieNotNorthFromSameLevel ==
    /\ FnReturned("is_flood_allowed")
    /\ fn_in.tie_header.tieid.direction = South
    /\ fn_in.tie_header.tieid.tietype = NodeTIEType
    /\ fn_in.to_node_direction = DIR_NORTH
    /\ fn_in.originator_level = fn_in.from_node_level
    /\ ~fn_out.result

(***************************************************************************)
(* The flood scope between the two nodes of SpecLink.                      *)
(***************************************************************************)
\* Interface i and interface j, on the other end of its link, are both
\* THREE_WAY with a neighbor whose direction is known.
ThreeWayNeighbors(i, j) ==
    /\ j \in link[i]
    /\ if_state[i] = THREE_WAY
    /\ if_state[j] = THREE_WAY
    /\ ~FloodFilterRaises(World, i)
    /\ ~FloodFilterRaises(World, j)

\* C19: for two THREE_WAY neighbors and every TIE in the database of the
\* first, if the flood filter of the first lets it send the TIE to the
\* second, the request filter of the second lets it request the TIE from
\* the first, whether the second holds a copy of the TIE or not.
C19_ScopeSymmetry ==
    \A i \in Intfs(World) : \A j \in Intfs(World) :
        ThreeWayNeighbors(i, j)
        => \A tieid \in DOMAIN ties[intf_node[i]] :
               ~is_flood_filtered(World, i, ties[intf_node[i]][tieid].header)
               => ~is_request_filtered(World, j, ties[intf_node[i]][tieid].header)

(***************************************************************************)
(* SpecAge: the node with system id 1 at level 1 and its interface, which  *)
(* hears the LIEs of system 2 at level 2 that reflect it and, while the    *)
(* flood port is open, node TIEs of that neighbor with a short lifetime;   *)
(* the timer of the node that ages the TIEs expires every second.  fn_out  *)
(* counts the expiries, and holds the number of times the last one has     *)
(* triggered the SPF.                                                      *)
(***************************************************************************)
AgingTIEs ==
    { FloodPacket([FloodTie(TIEID(South, 2, NodeTIEType, MY_TIE_NR), seq_nr)
                       EXCEPT !.header.remaining_lifetime = remaining_lifetime], None) :
        seq_nr \in 1..MaxFnSeqNr, remaining_lifetime \in 0..MaxAgeLifetime }

ReceiveAgingTie(i) == \E message \in AgingTIEs : ReceiveTieMessage(i, message)

AgeTies(n) ==
    /\ ~crashed[n]
    /\ fn_out.age_ticks < MaxAgeTicks
    /\ fn_out' = [age_ticks |-> fn_out.age_ticks + 1,
                  spf_triggers |-> age_ties_spf_triggers(World, n)]
    /\ UNCHANGED << fn_in, link_clock, spf >>
    /\ Ended(age_ties(World, n), n)

InitAge ==
    /\ IsWorld(Started(<<NodeConfig(1, LevelInt(1))>>, <<1>>, <<{}>>))
    /\ fn_in = None
    /\ fn_out = [age_ticks |-> 0, spf_triggers |-> 0]
    /\ link_clock = None
    /\ spf = None

NextAge ==
    \/ \E i \in Intfs(World) : EnvReflectingLie(i)
    \/ \E i \in Intfs(World) : ReceiveAgingTie(i)
    \/ \E n \in Nodes(World) : AgeTies(n)
    \/ \E i \in Intfs(World) : IntfStep(i)
    \/ \E n \in Nodes(World) : NodeStep(n)

SpecAge == InitAge /\ [][NextAge]_vars

(***************************************************************************)
(* Properties of SpecAge.                                                  *)
(***************************************************************************)
\* C20: a tick of age_ties takes exactly one off the remaining_lifetime of
\* every TIE in the database and leaves the rest of the TIE as it is,
\* removes the TIEs whose lifetime thereby reaches 0 and no other, and
\* triggers the SPF once for each TIE removed; no TIE with a lifetime of 0
\* or less is in the database after the tick.  (So the lifetime L of a TIE
\* that is not replaced goes down by one per tick and the TIE is gone
\* after L ticks, 1 tick when L is 0: within L + 1.)
C20_AgeTiesTick ==
    [][\A n \in Nodes(World) :
          AgeTies(n)
          => /\ \A tie_id \in DOMAIN ties[n] :
                   IF ties[n][tie_id].header.remaining_lifetime <= 1
                   THEN tie_id \notin DOMAIN ties'[n]
                   ELSE /\ tie_id \in DOMAIN ties'[n]
                        /\ ties'[n][tie_id] =
                               [ties[n][tie_id] EXCEPT !.header.remaining_lifetime = @ - 1]
             /\ DOMAIN ties'[n] \subseteq DOMAIN ties[n]
             /\ \A tie_id \in DOMAIN ties'[n] :
                   ties'[n][tie_id].header.remaining_lifetime > 0
             /\ fn_out'.spf_triggers = Cardinality(DOMAIN ties[n] \ DOMAIN ties'[n])]_vars

\* A tick has removed the node TIE of the neighbor, which had been stored,
\* and has triggered the SPF.
C20_NeighborTieAgedOut ==
    \E n \in Nodes(World) :
        /\ fn_out.age_ticks > 0
        /\ fn_out.spf_triggers = 1
        /\ TIEID(South, 2, NodeTIEType, MY_TIE_NR) \notin DOMAIN ties[n]
        /\ \E i \in IntfsOf(World, n) :
              HeaderIndex(ties_ack[i], TIEID(South, 2, NodeTIEType, MY_TIE_NR)) # 0

(***************************************************************************)
(* SpecSpf: the deferral of the SPF runs of one node.  spf holds the        *)
(* attributes _defer_spf_timer (the ticks that the timer has left to run,  *)
(* or none when the attribute is None), _spf_deferred_trigger_pending and  *)
(* the three counters.  A tick is one part in SpfIntervalTicks of          *)
(* MIN_SPF_INTERVAL.  fn_out observes the ticks since the last SPF run and *)
(* the triggers since then.                                                *)
(***************************************************************************)
spf_run(s) == [s EXCEPT !.spf_runs_count = @ + 1]

start_defer_spf_timer(s) == [s EXCEPT !.defer_spf_timer = SpfIntervalTicks]

\* trigger_spf that runs the SPF whether the timer runs or not.
trigger_spf_always_runs(s) ==
    spf_run([start_defer_spf_timer(s) EXCEPT !.spf_triggers_count = @ + 1,
                                             !.spf_deferred_trigger_pending = FALSE])

trigger_spf(s) ==
    IF s.defer_spf_timer = NoTicks
    THEN spf_run([start_defer_spf_timer(s) EXCEPT !.spf_triggers_count = @ + 1,
                                                  !.spf_deferred_trigger_pending = FALSE])
    ELSE [s EXCEPT !.spf_triggers_count = @ + 1,
                   !.spf_deferred_trigger_pending = TRUE,
                   !.spf_triggers_deferred_count = @ + 1]

defer_spf_timer_expired(s) ==
    IF s.spf_deferred_trigger_pending
    THEN spf_run([start_defer_spf_timer(s) EXCEPT !.spf_deferred_trigger_pending = FALSE])
    ELSE [s EXCEPT !.defer_spf_timer = NoTicks]

\* What fn_out observes after a step from s to t.
SpfObserved(s, t, ticks, triggers) ==
    IF t.spf_runs_count # s.spf_runs_count
    THEN [since_spf_run |-> 0, triggers_since_run |-> 0]
    ELSE [since_spf_run |-> IF fn_out.since_spf_run + ticks > SpfIntervalTicks
                            THEN SpfIntervalTicks
                            ELSE fn_out.since_spf_run + ticks,
          triggers_since_run |-> fn_out.triggers_since_run + triggers]

SpfStep(t, ticks, triggers) ==
    /\ t.spf_runs_count <= MaxSpfRuns
    /\ t.spf_triggers_count <= MaxSpfTriggers
    /\ spf' = t
    /\ fn_out' = SpfObserved(spf, t, ticks, triggers)
    /\ UNCHANGED << fn_in, link_clock >>
    /\ Commit(World)

\* store_tie or remove_tie calls trigger_spf.
TriggerSpf == SpfStep(trigger_spf(spf), 0, 1)

\* The defer timer expires.
DeferSpfTimerExpired ==
    /\ spf.defer_spf_timer = 0
    /\ SpfStep(defer_spf_timer_expired(spf), 0, 0)

\* A tick passes; the timer expires before the next one does.
SpfTick ==
    /\ spf.defer_spf_timer # 0
    /\ SpfStep([spf EXCEPT !.defer_spf_timer = IF @ = NoTicks THEN @ ELSE @ - 1], 1, 0)

InitSpf ==
    /\ IsWorld(Started(<<NodeConfig(1, LevelInt(1))>>, <<1>>, <<{}>>))
    /\ fn_in = None
    /\ fn_out = [since_spf_run |-> SpfIntervalTicks, triggers_since_run |-> 0]
    /\ link_clock = None
    /\ spf = [defer_spf_timer |-> NoTicks, spf_triggers_count |-> 0,
              spf_triggers_deferred_count |-> 0, spf_deferred_trigger_pending |-> FALSE,
              spf_runs_count |-> 0]

NextSpf ==
    \/ TriggerSpf
    \/ DeferSpfTimerExpired
    \/ SpfTick

SpecSpf == InitSpf /\ [][NextSpf]_vars

(***************************************************************************)
(* Properties of SpecSpf.                                                  *)
(***************************************************************************)
SpfRuns == spf.spf_runs_count

SpfTimerRuns == spf.defer_spf_timer # NoTicks

\* C21: a trigger while no defer timer runs makes one SPF run and starts the
\* timer; a trigger while the timer runs makes no run and leaves the timer;
\* the expiry of the timer makes exactly one run and restarts the timer if
\* one or more triggers came while it ran, and makes no run and leaves the
\* timer stopped if none came.  So a run is at least one interval after the
\* run before it, and a trigger that has had no run yet has the expiry of
\* the running timer ahead of it.
C21_SpfTriggersCoalesce ==
    /\ [][/\ (TriggerSpf /\ ~SpfTimerRuns)
               => SpfRuns' = SpfRuns + 1 /\ spf'.defer_spf_timer = SpfIntervalTicks
          /\ (TriggerSpf /\ SpfTimerRuns)
               => SpfRuns' = SpfRuns /\ spf'.defer_spf_timer = spf.defer_spf_timer
          /\ (DeferSpfTimerExpired /\ fn_out.triggers_since_run >= 1)
               => SpfRuns' = SpfRuns + 1 /\ spf'.defer_spf_timer = SpfIntervalTicks
          /\ (DeferSpfTimerExpired /\ fn_out.triggers_since_run = 0)
               => SpfRuns' = SpfRuns /\ ~SpfTimerRuns'
          /\ SpfTick => SpfRuns' = SpfRuns
          /\ (SpfRuns' # SpfRuns /\ SpfRuns > 0)
               => fn_out.since_spf_run >= SpfIntervalTicks]_vars
    /\ [](fn_out.triggers_since_run > 0 => SpfTimerRuns)

\* Two triggers came while the timer ran, and its expiry has made the one
\* run for both of them: three triggers, two runs.
C21_TwoTriggersOneRun ==
    /\ spf.spf_triggers_count = 3
    /\ spf.spf_triggers_deferred_count = 2
    /\ spf.spf_runs_count = 2
    /\ fn_out.since_spf_run = 0
    /\ spf.defer_spf_timer = SpfIntervalTicks

(***************************************************************************)
(* The neighbors that the SPF adds for a visited node (SpecFn).            *)
(***************************************************************************)
\* The node TIE of system 2 in the arguments is one in the reverse
\* direction of the SPF, it lists the visited system as a neighbor that lies
\* in the reverse direction, and a link id pair (l, r) of the visited
\* system's entry for system 2 is (r, l) in that entry for the visited
\* system.
FnEdgeIsBidirectional ==
    /\ fn_in.nbr_tie # None
    /\ fn_in.nbr_tie.header.tieid.direction = reverse_dir(fn_in.spf_direction)
    /\ fn_in.node_system_id \in DOMAIN fn_in.nbr_tie.element.neighbors
    /\ IF fn_in.spf_direction = DIR_SOUTH
       THEN fn_in.nbr_tie.element.neighbors[fn_in.node_system_id].level
                > fn_in.nbr_tie.element.level
       ELSE fn_in.nbr_tie.element.neighbors[fn_in.node_system_id].level
                < fn_in.nbr_tie.element.level
    /\ \E pair \in fn_in.link_ids :
          <<pair[2], pair[1]>>
              \in fn_in.nbr_tie.element.neighbors[fn_in.node_system_id].link_ids

\* C22: the SPF adds system 2 as a destination by way of the visited system
\* only if the node TIE of system 2 in the reverse direction of the SPF
\* lists the visited system as a neighbor in the reverse direction, with a
\* link id pair that is the reverse of one in the visited system's entry
\* for system 2.
C22_SpfEdgesAreBidirectional ==
    FnReturned("spf_add_candidates_from_node") =>
        /\ fn_out.result \subseteq {2}
        /\ 2 \in fn_out.result => FnEdgeIsBidirectional

\* The SPF has added system 2 by way of the visited system 3, over one of
\* two links.
C22_SpfAddsNeighbor ==
    /\ FnReturned("spf_add_candidates_from_node")
    /\ fn_in.node_system_id = 3
    /\ fn_in.link_ids = {<<1, 1>>, <<2, 2>>}
    /\ fn_out.result = {2}

(***************************************************************************)
(* generate_tide_packet applied on its own (SpecFn).                       *)
(***************************************************************************)
\* The arguments of the scope matrix for a stored TIE that goes from node 1
\* to its neighbor 2, and for one that goes from the neighbor to node 1.
FnTideToNbr(tieid) ==
    [ tie_header |-> TIEHeader(tieid, 1, default_lifetime),
      originator_level |-> IF tieid.tietype = NodeTIEType
                           THEN FnTideLevel(fn_in, tieid.originator) ELSE NoLevel,
      to_node_direction |-> FnTideDirection(fn_in),
      to_node_system_id |-> 2,
      from_node_system_id |-> 1,
      from_node_level |-> fn_in.my_level,
      from_node_is_top_of_fabric |-> fn_in.my_level = top_of_fabric_level ]

FnTideFromNbr(tieid) ==
    [ FnTideToNbr(tieid) EXCEPT
        !.to_node_direction = reverse_dir(FnTideDirection(fn_in)),
        !.to_node_system_id = 1,
        !.from_node_system_id = 2,
        !.from_node_level = fn_in.neighbor_level,
        !.from_node_is_top_of_fabric = fn_in.neighbor_level = top_of_fabric_level ]

FnTideInScope(tieid) == ScopeMatrix(FnTideToNbr(tieid)) \/ ScopeMatrix(FnTideFromNbr(tieid))

\* C23: the TIDE that generate_tide_packet makes for a neighbor has the
\* range from MIN_TIE_ID to MAX_TIE_ID, its headers are in strictly
\* ascending order of TIE-ID, and they are exactly the headers of the stored
\* TIEs that the scope matrix lets this node flood to the neighbor or lets
\* the neighbor flood to this node.
C23_TideListsScopeInOrder ==
    FnReturned("generate_tide_packet") =>
        /\ fn_out.result.start_range = MIN_TIE_ID
        /\ fn_out.result.end_range = MAX_TIE_ID
        /\ \A k \in 1..(Len(fn_out.result.headers) - 1) :
              tie_id_less(fn_out.result.headers[k].tieid,
                          fn_out.result.headers[k + 1].tieid)
        /\ { fn_out.result.headers[k] : k \in 1..Len(fn_out.result.headers) }
               = { TIEHeader(tieid, 1, default_lifetime) :
                     tieid \in { id \in fn_in.tie_ids : FnTideInScope(id) } }

\* The TIDE for a neighbor to the south lists the N-TIE of a third system,
\* which only the neighbor may flood, before a South Prefix TIE of this
\* node, and leaves out the South Prefix TIE of the third system.
C23_TideListsNeighborScope ==
    /\ FnReturned("generate_tide_packet")
    /\ fn_in.my_level = 2
    /\ fn_in.neighbor_level = 1
    /\ fn_in.tie_ids = { TIEID(North, 3, NodeTIEType, MY_TIE_NR),
                         TIEID(South, 1, PrefixTIEType, MY_TIE_NR),
                         TIEID(South, 3, PrefixTIEType, MY_TIE_NR) }
    /\ fn_out.result.headers
           = << TIEHeader(TIEID(South, 1, PrefixTIEType, MY_TIE_NR), 1, default_lifetime),
                TIEHeader(TIEID(North, 3, NodeTIEType, MY_TIE_NR), 1, default_lifetime) >>

(***************************************************************************)
(* The flood queues of an interface that is not THREE_WAY (SpecFlood).     *)
(***************************************************************************)
AllQueuesEmpty(i) ==
    /\ ties_tx[i] = << >>
    /\ ties_rtx[i] = << >>
    /\ ties_req[i] = << >>
    /\ ties_ack[i] = << >>

\* C24: between the handlers, the four flood queues of an interface that is
\* not THREE_WAY are empty and the timer that serves them is stopped; and
\* every step that takes the interface out of THREE_WAY leaves the four
\* queues empty.
C24_NoFloodingUnlessThreeWay ==
    /\ [](\A i \in Intfs(World) :
             if_state[i] # THREE_WAY => AllQueuesEmpty(i) /\ ~service_queues_timer[i])
    /\ [][\A i \in Intfs(World) :
             if_state[i] = THREE_WAY /\ if_state'[i] # THREE_WAY => AllQueuesEmpty(i)']_vars

\* The interface has fallen back to TWO_WAY with empty queues after it has
\* stored a TIE of its neighbor, whose header it had put on a queue.
C24_QueuesClearedOnTwoWay ==
    \E i \in Intfs(World) :
        /\ if_state[i] = TWO_WAY
        /\ AllQueuesEmpty(i)
        /\ ~service_queues_timer[i]
        /\ \E tie_id \in DOMAIN ties[intf_node[i]] :
              tie_id.originator # system_id[intf_node[i]]

(***************************************************************************)
(* SpecParallel: one node at level 1 with two interfaces, which both hear  *)
(* LIEs of system 2 or of system 3 at level 2.                             *)
(***************************************************************************)
\* The neighbor that a LIE heard on interface i may name: this interface of
\* this node, another interface of this node, or none.
ParallelPeers(i) == { <<1, local_id[i]>>, <<1, local_id[i] + 1>>, <<NoId, NoId>> }

\* The senders of the LIEs and the interface from which each sends: system
\* 2 from its interface 1 or 2, system 3 from its interface 1.
ParallelSenders == { <<2, 1>>, <<2, 2>>, <<3, 1>> }

\* A LIE of the sender from its interface lid, which names one of these
\* neighbors.
EnvParallelLie(i) ==
    /\ ~crashed[intf_node[i]]
    /\ Pending(World, intf_node[i]) < MaxPending
    /\ \E sender \in ParallelSenders, peer \in ParallelPeers(i) :
          Finish(receive_lie_message(
                     World, i,
                     LIEPacket(sender[1], 2, sender[2], peer[1], peer[2], get_mtu, FALSE,
                               TRUE)),
                 intf_node[i])

InitParallel ==
    /\ IsWorld(Started(<<NodeConfig(1, LevelInt(1))>>, <<1, 1>>, <<{}, {}>>))
    /\ fn_in = None
    /\ fn_out = None
    /\ link_clock = None
    /\ spf = None

NextParallel ==
    \/ \E i \in Intfs(World) : EnvParallelLie(i)
    \/ \E i \in Intfs(World) : IntfStep(i)
    \/ \E n \in Nodes(World) : NodeStep(n)

SpecParallel == InitParallel /\ [][NextParallel]_vars

(***************************************************************************)
(* Properties of SpecParallel.                                             *)
(***************************************************************************)
\* The THREE_WAY interfaces of node n whose neighbor is the system sid.
ThreeWayInterfacesTo(n, sid) ==
    { i \in IntfsOf(World, n) : /\ if_state[i] = THREE_WAY
                                /\ neighbor[i] # None
                                /\ neighbor[i].system_id = sid }

\* The own Node TIE of the direction in the database of node n has, for
\* every system to which the node has THREE_WAY interfaces, an entry whose
\* link_ids are exactly the (local_id, remote_id) pairs of those interfaces,
\* as many pairs as interfaces.
ParallelLinksCollapsed(n, direction) ==
    \A sid \in { neighbor[i].system_id :
                   i \in { j \in IntfsOf(World, n) : neighbor[j] # None } } :
        ThreeWayInterfacesTo(n, sid) # {}
        => /\ sid \in DOMAIN ties[n][OwnNodeTieId(n, direction)].element.neighbors
           /\ ties[n][OwnNodeTieId(n, direction)].element.neighbors[sid].link_ids
                  = { <<local_id[i], neighbor[i].local_id>> :
                        i \in ThreeWayInterfacesTo(n, sid) }
           /\ Cardinality(
                  ties[n][OwnNodeTieId(n, direction)].element.neighbors[sid].link_ids)
                  = Cardinality(ThreeWayInterfacesTo(n, sid))

\* C25: after every step that regenerates the Node TIEs of a node, the Node
\* TIE of each direction has one entry for each system to which the node
\* has THREE_WAY interfaces, and the link_ids of that entry are exactly the
\* (local_id, remote_id) pairs of those interfaces: two pairs for two
\* parallel interfaces, k pairs for k.
C25_ParallelLinksOneEntry ==
    [][\A n \in Nodes(World) :
          (my_node_tie_seq_nrs'[n] # my_node_tie_seq_nrs[n] /\ ~crashed'[n])
          => ParallelLinksCollapsed(n, South)' /\ ParallelLinksCollapsed(n, North)']_vars

\* Both interfaces are THREE_WAY with system 2 and the Node TIEs have one
\* entry for it with two pairs.
C25_TwoParallelLinks ==
    /\ Cardinality(ThreeWayInterfacesTo(1, 2)) = 2
    /\ DOMAIN ties[1][OwnNodeTieId(1, North)].element.neighbors = {2}
    /\ Cardinality(ties[1][OwnNodeTieId(1, North)].element.neighbors[2].link_ids) = 2
    /\ ParallelLinksCollapsed(1, South)

(***************************************************************************)
(* The three-way check of a received LIE (Spec and SpecParallel).          *)
(***************************************************************************)
\* The LIE state machine of interface i is about to process a LIE that it
\* accepts; in TWO_WAY and in THREE_WAY the LIE comes from the neighbor that
\* the interface knows, with the level and the address that it knows.
AcceptedLieIsNext(i) ==
    /\ ~crashed[intf_node[i]]
    /\ if_queue[i] # << >>
    /\ Head(if_queue[i]).event = "LIE_RECEIVED"
    /\ is_received_lie_acceptable(World, i, Head(if_queue[i]).data).accept
    /\ if_state[i] # ONE_WAY
          => /\ neighbor[i] # None
             /\ neighbor[i].system_id = Head(if_queue[i]).data.sender
             /\ neighbor[i].level = Head(if_queue[i]).data.level
             /\ neighbor[i].address = Head(if_queue[i]).data.address

\* The events about the reflection that wait for the state machine.
ReflectionEvents(i) ==
    { if_queue[i][k].event : k \in 1..Len(if_queue[i]) }
        \cap {"VALID_REFLECTION", "MULTIPLE_NEIGHBORS", "NEIGHBOR_DROPPED_REFLECTION"}

NamesMe(i) ==
    /\ Head(if_queue[i]).data.nbr_system_id = system_id[intf_node[i]]
    /\ Head(if_queue[i]).data.nbr_link_id = local_id[i]

NamesNobody(i) == Head(if_queue[i]).data.nbr_system_id = NoId

NextEventIs(i, event) ==
    ~crashed[intf_node[i]] /\ if_queue[i] # << >> /\ Head(if_queue[i]).event = event

\* C26: when the state machine processes an accepted LIE of its neighbor in
\* TWO_WAY, a LIE that names this node and this interface pushes
\* VALID_REFLECTION, a LIE that names another peer pushes
\* MULTIPLE_NEIGHBORS, and a LIE that names no peer pushes neither and
\* leaves the state TWO_WAY; in THREE_WAY a LIE that names no peer pushes
\* NEIGHBOR_DROPPED_REFLECTION; in ONE_WAY none of the three events is
\* pushed.  VALID_REFLECTION takes TWO_WAY to THREE_WAY, MULTIPLE_NEIGHBORS
\* takes TWO_WAY to ONE_WAY, and NEIGHBOR_DROPPED_REFLECTION takes
\* THREE_WAY to TWO_WAY.
C26_ThreeWayCheck ==
    [][\A i \in Intfs(World) :
          IntfStep(i)
          => /\ (AcceptedLieIsNext(i) /\ if_state[i] = TWO_WAY)
                   => /\ NamesMe(i) => ReflectionEvents(i)' = {"VALID_REFLECTION"}
                      /\ (~NamesMe(i) /\ ~NamesNobody(i))
                            => ReflectionEvents(i)' = {"MULTIPLE_NEIGHBORS"}
                      /\ NamesNobody(i)
                            => ReflectionEvents(i)' = {} /\ if_state'[i] = TWO_WAY
             /\ (AcceptedLieIsNext(i) /\ if_state[i] = THREE_WAY /\ NamesNobody(i))
                   => ReflectionEvents(i)' = {"NEIGHBOR_DROPPED_REFLECTION"}
             /\ (AcceptedLieIsNext(i) /\ if_state[i] = ONE_WAY)
                   => ReflectionEvents(i)' = {}
             /\ (NextEventIs(i, "VALID_REFLECTION") /\ if_state[i] = TWO_WAY)
                   => if_state'[i] = THREE_WAY
             /\ (NextEventIs(i, "MULTIPLE_NEIGHBORS") /\ if_state[i] = TWO_WAY)
                   => if_state'[i] = ONE_WAY
             /\ (NextEventIs(i, "NEIGHBOR_DROPPED_REFLECTION") /\ if_state[i] = THREE_WAY)
                   => if_state'[i] = TWO_WAY]_vars

(***************************************************************************)
(* The offers that the ZTP state machine stores (Spec).                    *)
(***************************************************************************)
\* The table holds one offer under the interface name of the offer: the
\* offer itself, removed if and only if it has the not_a_ztp_offer flag, no
\* level, or the level of a leaf.
OfferStored(offers, offer) ==
    /\ Cardinality({ k \in 1..Len(offers) :
                       offers[k].interface_name = offer.interface_name }) = 1
    /\ \A k \in 1..Len(offers) :
          offers[k].interface_name = offer.interface_name
          => /\ offers[k].system_id = offer.system_id
             /\ offers[k].level = offer.level
             /\ offers[k].not_a_ztp_offer = offer.not_a_ztp_offer
             /\ offers[k].state = offer.state
             /\ offers[k].removed <=> \/ offer.not_a_ztp_offer
                                      \/ offer.level = NoLevel
                                      \/ offer.level = leaf_level

\* C27: when the ZTP state machine processes NEIGHBOR_OFFER, the offer is
\* stored under its interface name in place of the offer that was there,
\* as removed if and only if it is marked not_a_ztp_offer, has no level, or
\* has level 0; and the table never holds two offers of one interface name.
C27_OfferRemovedIffNotUsable ==
    /\ [][\A n \in Nodes(World) :
             (NodeStep(n) /\ Head(ztp_queue[n]).event = "NEIGHBOR_OFFER")
             => OfferStored(rx_offers'[n], Head(ztp_queue[n]).data)]_vars
    /\ [](\A n \in Nodes(World) : \A k, m \in 1..Len(rx_offers[n]) :
             rx_offers[n][k].interface_name = rx_offers[n][m].interface_name => k = m)

\* The offer of a leaf is in the table as removed, in the place of a
\* previous offer: the node has a level that it derived from that one.
C27_LeafOfferRemoved ==
    /\ Len(rx_offers[1]) = 1
    /\ rx_offers[1][1].removed
    /\ rx_offers[1][1].removed_reason = "Level is leaf"
    /\ derived_level[1] # NoLevel

(***************************************************************************)
(* SpecHoldDown: a ZTP node with one interface on which the LIEs of two    *)
(* systems arrive, up to MaxHoldDownPending of them before the state       *)
(* machines process them.                                                  *)
(***************************************************************************)
MaxHoldDownPending == 2

\* The LIE of system 3 at level 24, the same LIE with the not_a_ztp_offer
\* flag, and the LIE of system 2 at level 2.
HoldDownLIEs(i) ==
    { LIEPacket(3, 24, 1, 1, local_id[i], get_mtu, FALSE, TRUE),
      LIEPacket(3, 24, 1, 1, local_id[i], get_mtu, TRUE, TRUE),
      LIEPacket(2, 2, 1, 1, local_id[i], get_mtu, FALSE, TRUE) }

EnvHoldDownLie(i) ==
    /\ ~crashed[intf_node[i]]
    /\ Pending(World, intf_node[i]) < MaxHoldDownPending
    /\ \E protocol_packet \in HoldDownLIEs(i) :
          Finish(receive_lie_message(World, i, protocol_packet), intf_node[i])

InitHoldDown ==
    /\ IsWorld(Started(<<NodeConfig(1, LevelWord("undefined"))>>, <<1>>, <<{}>>))
    /\ fn_in = None
    /\ fn_out = None
    /\ link_clock = None
    /\ spf = None

NextHoldDown ==
    \/ \E i \in Intfs(World) : EnvHoldDownLie(i)
    \/ \E i \in Intfs(World) : IntfStep(i)
    \/ \E n \in Nodes(World) : NodeStep(n)
    \/ \E n \in Nodes(World) : HoldDownExpired(n)

SpecHoldDown == InitHoldDown /\ [][NextHoldDown]_vars

\* A hold down timer that was started expires, and an event that waits for
\* the ZTP state machine is processed: weak fairness of HoldDownExpired and
\* of NodeStep, which are enabled when the timer runs and when the queue is
\* not empty.
SpecHoldDownFair ==
    /\ SpecHoldDown
    /\ \A n \in {1} :
          /\ []<>(~hold_down_timer[n] \/ crashed[n]) \/ []<><<HoldDownExpired(n)>>_vars
          /\ []<>(ztp_queue[n] = << >> \/ crashed[n]) \/ []<><<NodeStep(n)>>_vars

(***************************************************************************)
(* Properties of SpecHoldDownFair.                                         *)
(***************************************************************************)
\* The ZTP state machine of node n is about to process the event.
NextNodeEventIs(n, event) ==
    ~crashed[n] /\ ztp_queue[n] # << >> /\ Head(ztp_queue[n]).event = event

\* An offer that is not removed has a level below the level of node n.
LowerOfferExists(n) ==
    /\ level_value(World, n) # NoLevel
    /\ \E k \in 1..Len(rx_offers[n]) :
          /\ ~rx_offers[n][k].removed
          /\ rx_offers[n][k].level # NoLevel
          /\ rx_offers[n][k].level < level_value(World, n)

HoldDownExpiredWaits(n) ==
    \E k \in 1..Len(ztp_queue[n]) : ztp_queue[n][k].event = "HOLD_DOWN_EXPIRED"

\* C28: LOST_HAL in UPDATING_CLIENTS or COMPUTE_BEST_OFFER takes the ZTP
\* state machine to HOLDING_DOWN; with an offer that is not removed and has
\* a level below the level of the node it starts the hold down timer,
\* without one it pushes HOLD_DOWN_EXPIRED at once.  HOLD_DOWN_EXPIRED marks
\* every offer removed and takes the state machine to COMPUTE_BEST_OFFER.
\* The state machine does not stay in HOLDING_DOWN for ever.
C28_HoldDown ==
    /\ [][\A n \in Nodes(World) :
             NodeStep(n)
             => /\ (NextNodeEventIs(n, "LOST_HAL") /\ ztp_state[n] # HOLDING_DOWN)
                      => /\ ztp_state'[n] = HOLDING_DOWN
                         /\ LowerOfferExists(n)
                               => hold_down_timer'[n] /\ ~HoldDownExpiredWaits(n)'
                         /\ ~LowerOfferExists(n)
                               => ~hold_down_timer'[n] /\ HoldDownExpiredWaits(n)'
                /\ NextNodeEventIs(n, "HOLD_DOWN_EXPIRED")
                      => /\ \A k \in 1..Len(rx_offers'[n]) : rx_offers'[n][k].removed
                         /\ ztp_state'[n] = COMPUTE_BEST_OFFER]_vars
    /\ \A n \in {1} :
          (ztp_state[n] = HOLDING_DOWN) ~> (ztp_state[n] # HOLDING_DOWN \/ crashed[n])

\* The node holds down with its timer running: the offer of system 2 at
\* level 2 is below the level that the node derived.
C28_HoldDownTimerRuns ==
    /\ ztp_state[1] = HOLDING_DOWN
    /\ hold_down_timer[1]
    /\ LowerOfferExists(1)

(***************************************************************************)
(* The regeneration of the South Prefix TIE (Spec).                        *)
(***************************************************************************)
\* The South Prefix TIE that node n originated last is in its database.
SouthPrefixTieStored(w, n) ==
    /\ w.my_south_prefix_tie[n] # None
    /\ w.my_south_prefix_tie[n].header.tieid \in DOMAIN w.ties[n]
    /\ w.ties[n][w.my_south_prefix_tie[n].header.tieid] = w.my_south_prefix_tie[n]

\* The South Prefix TIE of node n in its database, None without one.
SouthPrefixTieInDb(w, n) ==
    find_tie(w, n, TIEID(South, w.system_id[n], PrefixTIEType, MY_TIE_NR))

\* What the claim says of one regeneration of the South Prefix TIE of node n
\* with the decision must_originate_default, from state w to state v.
SouthPrefixRegenerated(w, v, n, must_originate_default) ==
    IF w.my_south_prefix_tie[n] = None
    THEN IF must_originate_default
         THEN /\ SouthPrefixTieStored(v, n)
              /\ v.my_south_prefix_tie[n].element.prefixes = {"0.0.0.0/0", "::0/0"}
         ELSE /\ v.my_south_prefix_tie[n] = None
              /\ SouthPrefixTieInDb(v, n) = SouthPrefixTieInDb(w, n)
    ELSE IF must_originate_default = w.originating_default[n]
    THEN /\ v.my_south_prefix_tie[n] = w.my_south_prefix_tie[n]
         /\ SouthPrefixTieInDb(v, n) = SouthPrefixTieInDb(w, n)
    ELSE /\ SouthPrefixTieStored(v, n)
         /\ v.my_south_prefix_tie[n].header.seq_nr
                = w.my_south_prefix_tie[n].header.seq_nr + 1
         /\ v.my_south_prefix_tie[n].element.prefixes
                = IF must_originate_default THEN {"0.0.0.0/0", "::0/0"} ELSE {}

\* C29: in every state, a regeneration of the South Prefix TIE with a
\* decision that differs from the last one stores a new South Prefix TIE
\* whose seq_nr is one higher, without prefixes when the decision is false
\* and with the default routes when it is true; with the same decision it
\* leaves the TIE and the database as they are; and it creates no TIE when
\* none was originated and the decision is false.  And in every step of
\* the program, a South Prefix TIE that changes is stored, with the default
\* routes if and only if the node now originates them and with a higher
\* seq_nr; once the node has a South Prefix TIE, a step that changes the
\* decision adds one to the seq_nr and a step that does not leaves the TIE
\* as it is.
C29_SouthPrefixTieFlush ==
    /\ [](\A n \in Nodes(World) : \A must_originate_default \in BOOLEAN :
             ~crashed[n]
             => SouthPrefixRegenerated(
                    World, SouthPrefixDecided(World, n, must_originate_default), n,
                    must_originate_default))
    /\ [][\A n \in Nodes(World) :
             ~crashed'[n]
             => /\ my_south_prefix_tie'[n] # my_south_prefix_tie[n]
                   => /\ SouthPrefixTieStored(World, n)'
                      /\ my_south_prefix_tie'[n].element.prefixes
                             = IF originating_default'[n]
                               THEN {"0.0.0.0/0", "::0/0"} ELSE {}
                      /\ my_south_prefix_tie[n] # None
                             => my_south_prefix_tie'[n].header.seq_nr
                                    > my_south_prefix_tie[n].header.seq_nr
                /\ (my_south_prefix_tie[n] # None
                       /\ originating_default'[n] # originating_default[n])
                      => my_south_prefix_tie'[n].header.seq_nr
                             = my_south_prefix_tie[n].header.seq_nr + 1
                /\ (my_south_prefix_tie[n] # None
                       /\ originating_default'[n] = originating_default[n])
                      => my_south_prefix_tie'[n] = my_south_prefix_tie[n]]_vars

\* The node has flushed its South Prefix TIE: the TIE in its database has
\* no prefixes and the seq_nr 2.
C29_EmptySouthPrefixTie ==
    /\ SouthPrefixTieStored(World, 1)
    /\ ~originating_default[1]
    /\ my_south_prefix_tie[1].header.seq_nr = 2
    /\ my_south_prefix_tie[1].element.prefixes = {}


(***************************************************************************)
(* The reception of a TIE that another node originated (SpecFlood).  The   *)
(* reception may leave every variable as it is, so that it is judged in    *)
(* every state, for every TIE that the interface can receive there, by the *)
(* world that process_received_tie_packet computes.                        *)
(***************************************************************************)
\* Interface i can receive the message, which carries a TIE that the node of
\* the interface did not originate, and the interface does not drop it.
RxForeignTie(i, message) ==
    /\ ~crashed[intf_node[i]]
    /\ service_queues_timer[i]
    /\ message.tie # None
    /\ message.tie.header.tieid.originator # system_id[intf_node[i]]
    /\ receive_message_common(World, i, message) # None

\* How the copy in the database compares with the received header: "none",
\* "older", "newer" or "equal".
RxLocalCopy(i, rx_tie_header) ==
    LET db_tie == find_tie(World, intf_node[i], rx_tie_header.tieid) IN
    IF db_tie = None THEN "none"
    ELSE IF compare_tie_header_age(db_tie.header, rx_tie_header) < 0 THEN "older"
    ELSE IF compare_tie_header_age(db_tie.header, rx_tie_header) > 0 THEN "newer"
    ELSE "equal"

HeaderOnQueue(queue, tie_header) == \E k \in 1..Len(queue) : queue[k] = tie_header

\* The header of the TIE-ID on the queue, or none.
QueuedHeader(queue, tieid) ==
    IF HeaderIndex(queue, tieid) = 0 THEN None ELSE queue[HeaderIndex(queue, tieid)]

\* The ACK queue of interface i holds a header of the TIE-ID whose seq_nr is
\* not below the one of tie_header.
AckQueuedAsNew(i, tie_header) ==
    \E k \in 1..Len(ties_ack[i]) :
        /\ ties_ack[i][k].tieid = tie_header.tieid
        /\ ties_ack[i][k].seq_nr >= tie_header.seq_nr

\* What every case of the reception has in common, v being the world after
\* it: the node does not stop; an absent or older copy is replaced by the
\* received TIE, whose header goes on the ACK queue; a newer or equal copy
\* leaves the database as it is, and the header of an equal copy goes on
\* the ACK queue; afterwards the copy in the database is not older than the
\* received TIE.
RxTieStoredOrKept(i, rx_tie, v) ==
    /\ ~v.crashed[intf_node[i]]
    /\ RxLocalCopy(i, rx_tie.header) \in {"none", "older"}
          => /\ v.ties[intf_node[i]] = (rx_tie.header.tieid :> rx_tie) @@ ties[intf_node[i]]
             /\ HeaderOnQueue(v.ties_ack[i], rx_tie.header)
    /\ RxLocalCopy(i, rx_tie.header) \in {"newer", "equal"}
          => v.ties[intf_node[i]] = ties[intf_node[i]]
    /\ RxLocalCopy(i, rx_tie.header) = "equal"
          => HeaderOnQueue(v.ties_ack[i], ties[intf_node[i]][rx_tie.header.tieid].header)
    /\ rx_tie.header.tieid \in DOMAIN v.ties[intf_node[i]]
    /\ compare_tie_header_age(v.ties[intf_node[i]][rx_tie.header.tieid].header,
                              rx_tie.header) >= 0

\* With a newer copy, whose header is db_header: unless the flood filter
\* forbids it, the header is on the TX queue afterwards.
RxNewerCopySent(i, db_header, v) ==
    ~is_flood_filtered(World, i, db_header) => HeaderOnQueue(v.ties_tx[i], db_header)

\* With a newer copy, whose header is db_header: the header is put on the
\* TX queue if the flood filter lets it pass and the ACK queue holds no
\* header of that TIE-ID with a seq_nr as high; otherwise the TX and the
\* ACK queue hold for the TIE-ID what they held.
RxNewerCopySentUnlessAcked(i, db_header, v) ==
    IF ~is_flood_filtered(World, i, db_header) /\ ~AckQueuedAsNew(i, db_header)
    THEN HeaderOnQueue(v.ties_tx[i], db_header)
    ELSE /\ QueuedHeader(v.ties_tx[i], db_header.tieid)
                = QueuedHeader(ties_tx[i], db_header.tieid)
         /\ QueuedHeader(v.ties_ack[i], db_header.tieid)
                = QueuedHeader(ties_ack[i], db_header.tieid)

RxTieProcessed(i, rx_tie, v) ==
    /\ RxTieStoredOrKept(i, rx_tie, v)
    /\ RxLocalCopy(i, rx_tie.header) = "newer"
          => RxNewerCopySent(i, ties[intf_node[i]][rx_tie.header.tieid].header, v)

RxTieProcessedUnlessAcked(i, rx_tie, v) ==
    /\ RxTieStoredOrKept(i, rx_tie, v)
    /\ RxLocalCopy(i, rx_tie.header) = "newer"
          => RxNewerCopySentUnlessAcked(i, ties[intf_node[i]][rx_tie.header.tieid].header, v)

\* C30: when an interface processes a received TIE that its node did not
\* originate, then: without a copy in the database or with an older copy,
\* the received TIE is stored and its header is put on the ACK queue of the
\* interface; with a newer copy the database stays as it is and, unless the
\* flood filter forbids it, the header of the copy is on the TX queue; with
\* an equal copy the database stays as it is and the header of the copy is
\* on the ACK queue.  Afterwards the copy in the database is not older than
\* the received TIE.
C30_ReceivedTieProcessed ==
    \A i \in Intfs(World) : \A message \in EnvTIEs :
        RxForeignTie(i, message)
        => RxTieProcessed(i, message.tie, receive_flood_message(World, i, message))

\* C30, amended: as C30, but with a newer copy the header of the copy is
\* put on the TX queue only if, besides the flood filter letting it pass,
\* the ACK queue holds no header of that TIE-ID with a seq_nr as high as the
\* one of the copy; if it holds one, or if the flood filter forbids the
\* TIE, the TX and the ACK queue stay as they are.
C30_ReceivedTieProcessedUnlessAcked ==
    \A i \in Intfs(World) : \A message \in EnvTIEs :
        RxForeignTie(i, message)
        => RxTieProcessedUnlessAcked(i, message.tie,
                                     receive_flood_message(World, i, message))

\* The database holds version 2 of the Node TIE of the neighbor, and the
\* header of that version is on the TX queue of the interface and on no
\* other queue: an older version was received after the neighbor had
\* acknowledged version 2.
C30_NewerCopyQueuedForTx ==
    \E i \in Intfs(World) :
        LET tieid == TIEID(South, 2, NodeTIEType, MY_TIE_NR) IN
        /\ tieid \in DOMAIN ties[intf_node[i]]
        /\ ties[intf_node[i]][tieid].header.seq_nr = 2
        /\ HeaderOnQueue(ties_tx[i], ties[intf_node[i]][tieid].header)
        /\ HeaderIndex(ties_ack[i], tieid) = 0
        /\ HeaderIndex(ties_req[i], tieid) = 0


(***************************************************************************)
(* SpecTide: the node of SpecFlood, at level 1 below system 2, receives    *)
(* TIEs and TIDEs of its neighbor.  The TIE-IDs of the TIDEs are, in their *)
(* order: the South Node TIE of this node, which is in the database from   *)
(* the start, a South Prefix TIE of the neighbor, which is in the database *)
(* once it has been received, and a North Prefix TIE of this node, which   *)
(* is in the database once a TIDE that lists it has been received.  The    *)
(* North Node TIE of this node is in the database and in no TIDE.          *)
(***************************************************************************)
TideTieIds ==
    << TIEID(South, 1, NodeTIEType, MY_TIE_NR),
       TIEID(South, 2, PrefixTIEType, MY_TIE_NR),
       TIEID(North, 1, PrefixTIEType, MY_TIE_NR) >>

\* The highest sequence number of a header in a TIDE.
MaxTideSeqNr == 2

\* The TIDEs list each TIE-ID at most once, in ascending order: for every
\* TIE-ID a sequence number, or 0 when it is not listed.
TideListings == [1..Len(TideTieIds) -> 0..MaxTideSeqNr]

TideListed(listing, start_range, end_range) ==
    LET idxs == { k \in 1..Len(TideTieIds) :
                    /\ listing[k] # 0
                    /\ ~tie_id_less(TideTieIds[k], start_range)
                    /\ ~tie_id_less(end_range, TideTieIds[k]) }
        RECURSIVE Hdrs(_)
        Hdrs(k) == IF k > Len(TideTieIds) THEN << >>
                   ELSE (IF k \in idxs
                         THEN << TIEHeader(TideTieIds[k], listing[k], default_lifetime) >>
                         ELSE << >>) \o Hdrs(k + 1)
    IN  Hdrs(1)

TIDEPacket(start_range, end_range, headers) ==
    [start_range |-> start_range, end_range |-> end_range, headers |-> headers]

TideRanges ==
    { <<MIN_TIE_ID, MAX_TIE_ID>>, <<MIN_TIE_ID, TideTieIds[2]>>,
      <<TideTieIds[2], MAX_TIE_ID>>, <<TideTieIds[3], MAX_TIE_ID>> }

FloodTidePacket(tide) ==
    [sender |-> 2, major_version |-> RIFT_MAJOR_VERSION, tie |-> None, tide |-> tide,
     tire |-> None]

EnvTIDEs ==
    { FloodTidePacket(TIDEPacket(range[1], range[2],
                                 TideListed(listing, range[1], range[2]))) :
        range \in TideRanges, listing \in TideListings }

TideTIEs ==
    { FloodPacket(FloodTie(TideTieIds[2], seq_nr), None) : seq_nr \in 1..MaxTideSeqNr }

ReceiveTideTie(i) == \E message \in TideTIEs : ReceiveTieMessage(i, message)

ReceiveTideMessage(i, message) ==
    /\ ~crashed[intf_node[i]]
    /\ service_queues_timer[i]
    /\ Finish(receive_flood_message(World, i, message), intf_node[i])

ReceiveTide(i) == \E message \in EnvTIDEs : ReceiveTideMessage(i, message)

InitTide ==
    /\ IsWorld(Started(<<NodeConfig(1, LevelInt(1))>>, <<1>>, <<{}>>))
    /\ fn_in = None
    /\ fn_out = None
    /\ link_clock = None
    /\ spf = None

NextTide ==
    \/ \E i \in Intfs(World) : EnvReflectingLie(i)
    \/ \E i \in Intfs(World) : ReceiveTideTie(i)
    \/ \E i \in Intfs(World) : ReceiveTide(i)
    \/ \E i \in Intfs(World) : IntfStep(i)
    \/ \E n \in Nodes(World) : NodeStep(n)

SpecTide == InitTide /\ [][NextTide]_vars


(***************************************************************************)
(* Properties of SpecTide.  The reception of a TIDE may leave every        *)
(* variable as it is, so that it is judged in every state in which the     *)
(* interface can receive, for every TIDE of the neighbor, by what          *)
(* process_received_tide_packet computes.                                  *)
(***************************************************************************)
TideReceivable(i) == ~crashed[intf_node[i]] /\ service_queues_timer[i]

InTideRange(tieid, tide_packet) ==
    /\ ~tie_id_less(tieid, tide_packet.start_range)
    /\ ~tie_id_less(tide_packet.end_range, tieid)

ListedInTide(tieid, tide_packet) ==
    \E k \in 1..Len(tide_packet.headers) : tide_packet.headers[k].tieid = tieid

\* How often a header of the TIE-ID is in the list.
TimesInList(headers, tieid) == Cardinality({ k \in 1..Len(headers) : headers[k].tieid = tieid })

\* lists is what the node returns for the TIDE: a TIE of the database in
\* the range that the TIDE does not list is once in the list of the TIEs to
\* transmit, with its header, and a listed TIE is in that list only with a
\* newer copy in the database or as a bumped TIE of this node, and then
\* once.
TideOffers(n, tide_packet, lists) ==
    /\ ~lists.w.crashed[n]
    /\ \A tieid \in DOMAIN ties[n] :
          (InTideRange(tieid, tide_packet) /\ ~ListedInTide(tieid, tide_packet))
          => /\ TimesInList(lists.start_sending_tie_headers, tieid) = 1
             /\ HeaderOnQueue(lists.start_sending_tie_headers, ties[n][tieid].header)
    /\ \A k \in 1..Len(tide_packet.headers) :
          LET header_in_tide == tide_packet.headers[k]
              db_tie == find_tie(World, n, header_in_tide.tieid)
          IN  TimesInList(lists.start_sending_tie_headers, header_in_tide.tieid) # 0
              => /\ TimesInList(lists.start_sending_tie_headers, header_in_tide.tieid) = 1
                 /\ \/ /\ db_tie # None
                       /\ compare_tie_header_age(db_tie.header, header_in_tide) > 0
                       /\ HeaderOnQueue(lists.start_sending_tie_headers, db_tie.header)
                    \/ /\ header_in_tide.tieid.originator = system_id[n]
                       /\ \E j \in 1..Len(lists.start_sending_tie_headers) :
                             /\ lists.start_sending_tie_headers[j].tieid = header_in_tide.tieid
                             /\ lists.start_sending_tie_headers[j].seq_nr
                                    = header_in_tide.seq_nr + 1

\* C31: when an interface processes a TIDE whose headers are in ascending
\* order and in its range, try_to_transmit_tie is called exactly once for
\* every TIE of the database whose TIE-ID is in the range and not listed,
\* and it is called for a listed TIE only when the copy in the database is
\* newer than the listed header or the TIE is a bumped TIE of this node.
C31_TideGapsOfferedOnce ==
    \A i \in Intfs(World) : \A message \in EnvTIDEs :
        TideReceivable(i)
        => TideOffers(intf_node[i], message.tide,
                      node_process_received_tide_packet(World, intf_node[i], message.tide))

\* A TIDE up to the highest TIE-ID has been processed, and the header of
\* the North Node TIE of this node, which no TIDE lists, is on the TX queue.
C31_UnlistedTieOnTx ==
    \E i \in Intfs(World) :
        /\ last_received_tide_end[intf_node[i]] = MAX_TIE_ID
        /\ HeaderIndex(ties_tx[i], TIEID(North, 1, NodeTIEType, MY_TIE_NR)) # 0


\* The TIE-ID is on none of the four queues.
OnNoQueue(tx, rtx, req, ack, tieid) ==
    /\ HeaderIndex(tx, tieid) = 0
    /\ HeaderIndex(rtx, tieid) = 0
    /\ HeaderIndex(req, tieid) = 0
    /\ HeaderIndex(ack, tieid) = 0

\* What the claim says of one listed header; lists is what the node returns
\* for the TIDE and v the world after the interface has gone through the
\* lists.
TideHeaderHandled(i, header_in_tide, lists, v) ==
    LET n == intf_node[i]
        tieid == header_in_tide.tieid
        local == RxLocalCopy(i, header_in_tide)
    IN  IF local \in {"none", "older"} /\ tieid.originator # system_id[n]
        THEN /\ find_tie(v, n, tieid) = find_tie(World, n, tieid)
             /\ HeaderIndex(v.ties_req[i], tieid) # 0
                   <=> ~is_request_filtered(World, i, header_in_tide)
             /\ ~is_request_filtered(World, i, header_in_tide)
                   => /\ HeaderOnQueue(v.ties_req[i],
                                       IF local = "none" THEN TIEHeader(tieid, 0, 0)
                                       ELSE header_in_tide)
                      /\ OnNoQueue(v.ties_tx[i], v.ties_rtx[i], << >>, v.ties_ack[i], tieid)
        ELSE IF local \in {"none", "older"}
        THEN /\ tieid \in DOMAIN v.ties[n]
             /\ v.ties[n][tieid].header.seq_nr = header_in_tide.seq_nr + 1
             /\ HeaderOnQueue(lists.start_sending_tie_headers, v.ties[n][tieid].header)
             /\ TimesInList(lists.request_tie_headers, tieid) = 0
             /\ HeaderIndex(v.ties_req[i], tieid) = HeaderIndex(ties_req[i], tieid)
        ELSE IF local = "equal"
        THEN /\ find_tie(v, n, tieid) = find_tie(World, n, tieid)
             /\ OnNoQueue(v.ties_tx[i], v.ties_rtx[i], v.ties_req[i], v.ties_ack[i], tieid)
        ELSE TRUE

TideHeadersHandled(i, tide_packet, lists) ==
    /\ ~lists.w.crashed[intf_node[i]]
    /\ ~TideDecided(lists, i).crashed[intf_node[i]]
    /\ \A k \in 1..Len(tide_packet.headers) :
          TideHeaderHandled(i, tide_packet.headers[k], lists, TideDecided(lists, i))

\* C32: for every header that a received TIDE lists: a TIE that another
\* node originated and of which the database has no copy or an older one is
\* put on the REQ queue of the interface exactly when the request filter
\* allows it, with no change of the database; a TIE of this node of which
\* the database has no copy or an older one is bumped to the listed seq_nr
\* plus one and handed to try_to_transmit_tie, and not requested; a TIE of
\* which the database has an equal copy is afterwards on none of the four
\* queues of the interface.
C32_TideHeaders ==
    \A i \in Intfs(World) : \A message \in EnvTIDEs :
        TideReceivable(i)
        => TideHeadersHandled(i, message.tide,
               node_process_received_tide_packet(World, intf_node[i], message.tide))

\* The REQ queue of the interface holds the request for the South Prefix TIE
\* of the neighbor, which a TIDE has listed and the database does not hold.
C32_MissingTieRequested ==
    \E i \in Intfs(World) :
        /\ TIEID(South, 2, PrefixTIEType, MY_TIE_NR) \notin DOMAIN ties[intf_node[i]]
        /\ HeaderOnQueue(ties_req[i],
                         TIEHeader(TIEID(South, 2, PrefixTIEType, MY_TIE_NR), 0, 0))


(***************************************************************************)
(* The reception of a TIRE (SpecFlood), judged in every state in which the *)
(* interface can receive, for every TIRE of the neighbor, by the world     *)
(* that process_received_tire_packet computes.                             *)
(***************************************************************************)
\* The four queues of interface i hold for the TIE-ID in v what they hold
\* now.
QueuesKeep(i, tieid, v) ==
    /\ QueuedHeader(v.ties_tx[i], tieid) = QueuedHeader(ties_tx[i], tieid)
    /\ QueuedHeader(v.ties_rtx[i], tieid) = QueuedHeader(ties_rtx[i], tieid)
    /\ QueuedHeader(v.ties_req[i], tieid) = QueuedHeader(ties_req[i], tieid)
    /\ QueuedHeader(v.ties_ack[i], tieid) = QueuedHeader(ties_ack[i], tieid)

\* The cases of a header of the TIRE other than that of a newer copy.
TireHeaderHandled(i, header_in_tire, v) ==
    /\ v.ties = ties
    /\ RxLocalCopy(i, header_in_tire) = "none" => QueuesKeep(i, header_in_tire.tieid, v)
    /\ RxLocalCopy(i, header_in_tire) = "older"
          => IF is_request_filtered(World, i, header_in_tire)
             THEN QueuesKeep(i, header_in_tire.tieid, v)
             ELSE /\ HeaderOnQueue(v.ties_req[i], header_in_tire)
                  /\ OnNoQueue(v.ties_tx[i], v.ties_rtx[i], << >>, v.ties_ack[i],
                               header_in_tire.tieid)
    /\ RxLocalCopy(i, header_in_tire) = "equal"
          => OnNoQueue(v.ties_tx[i], v.ties_rtx[i], v.ties_req[i], v.ties_ack[i],
                       header_in_tire.tieid)

TireProcessed(i, tire_packet, v) ==
    /\ ~v.crashed[intf_node[i]]
    /\ \A k \in 1..Len(tire_packet.headers) :
          /\ TireHeaderHandled(i, tire_packet.headers[k], v)
          /\ RxLocalCopy(i, tire_packet.headers[k]) = "newer"
                => RxNewerCopySent(
                       i, ties[intf_node[i]][tire_packet.headers[k].tieid].header, v)

TireProcessedUnlessAcked(i, tire_packet, v) ==
    /\ ~v.crashed[intf_node[i]]
    /\ \A k \in 1..Len(tire_packet.headers) :
          /\ TireHeaderHandled(i, tire_packet.headers[k], v)
          /\ RxLocalCopy(i, tire_packet.headers[k]) = "newer"
                => RxNewerCopySentUnlessAcked(
                       i, ties[intf_node[i]][tire_packet.headers[k].tieid].header, v)

\* C33: for every header of a received TIRE: with an older copy in the
\* database the header is put on the REQ queue unless the request filter
\* forbids it; with a newer copy the header of the copy is on the TX queue
\* afterwards unless the flood filter forbids it; with an equal copy the
\* TIE-ID is afterwards on none of the four queues; without a copy the
\* queues hold for the TIE-ID what they held.
C33_TireHeaders ==
    \A i \in Intfs(World) : \A message \in EnvTIREs :
        TideReceivable(i)
        => TireProcessed(i, message.tire,
                         process_received_tire_packet(World, i, message.tire))

\* C33, amended: as C33, but with a newer copy the header of the copy is
\* put on the TX queue only if, besides the flood filter letting it pass,
\* the ACK queue holds no header of that TIE-ID with a seq_nr as high as the
\* one of the copy; otherwise the TX and the ACK queue stay as they are.
C33_TireHeadersUnlessAcked ==
    \A i \in Intfs(World) : \A message \in EnvTIREs :
        TideReceivable(i)
        => TireProcessedUnlessAcked(i, message.tire,
                                    process_received_tire_packet(World, i, message.tire))

\* The database holds the South Node TIE of the neighbor with a seq_nr
\* below 3 and the REQ queue of the interface, and no other queue, holds
\* the header of a TIRE for that TIE with seq_nr 3.
C33_NewerVersionRequested ==
    \E i \in Intfs(World) :
        LET tieid == TIEID(South, 2, NodeTIEType, MY_TIE_NR) IN
        /\ tieid \in DOMAIN ties[intf_node[i]]
        /\ ties[intf_node[i]][tieid].header.seq_nr < 3
        /\ HeaderOnQueue(ties_req[i], TIEHeader(tieid, 3, default_lifetime))
        /\ OnNoQueue(ties_tx[i], ties_rtx[i], << >>, ties_ack[i], tieid)


(***************************************************************************)
(* SpecRib: the routes that the SPF runs of one node install.  spf holds   *)
(* the two RIBs of the node and fn_in the direction and the destination    *)
(* table of the last SPF run.  A route table is the set of its routes, at  *)
(* most one for a prefix and an owner; a route is stale from               *)
(* mark_owner_routes_stale until put_route writes it again, and            *)
(* del_stale_routes removes the stale routes.  A destination table is a    *)
(* sequence of pairs of a key and a destination; the key of a node is its  *)
(* system id and the key of a prefix destination is a prefix.              *)
(***************************************************************************)
OWNER_S_SPF == "S_SPF"
OWNER_N_SPF == "N_SPF"

Route(prefix, owner, next_hops) ==
    [prefix |-> prefix, owner |-> owner, next_hops |-> next_hops, stale |-> FALSE]

mark_owner_routes_stale(route_table, owner) ==
    { IF rte.owner = owner THEN [rte EXCEPT !.stale = TRUE] ELSE rte : rte \in route_table }

put_route(route_table, rte) ==
    { old \in route_table : ~(old.prefix = rte.prefix /\ old.owner = rte.owner) }
        \cup {rte}

del_stale_routes(route_table) == { rte \in route_table : ~rte.stale }

\* An IPPrefixType has one of its two fields set; the other one, which is
\* None, is written as the empty string.
NoPrefix == ""
IPv4Prefix(address) == [ipv4prefix |-> address, ipv6prefix |-> NoPrefix]
IPv6Prefix(address) == [ipv4prefix |-> NoPrefix, ipv6prefix |-> address]

NodeKey(sysid) == [is_node |-> TRUE, sysid |-> sysid, prefix |-> IPv4Prefix(NoPrefix)]
PrefixKey(prefix) == [is_node |-> FALSE, sysid |-> NoId, prefix |-> prefix]

SpfDest(predecessors, next_hops) == [predecessors |-> predecessors, next_hops |-> next_hops]

\* The loop of spf_install_routes_in_rib over the destination table.
RECURSIVE InstallRoutes(_, _, _, _)
InstallRoutes(ribs, dest_table, owner, my_system_id) ==
    IF dest_table = << >> THEN ribs
    ELSE LET dest_key == Head(dest_table)[1]
             dest == Head(dest_table)[2]
         IN  InstallRoutes(
                 IF dest_key.is_node THEN ribs
                 ELSE IF dest.predecessors = << >> THEN ribs
                 ELSE IF dest.predecessors = << my_system_id >> THEN ribs
                 ELSE IF dest_key.prefix.ipv4prefix # NoPrefix
                 THEN [ribs EXCEPT !.ipv4_rib =
                          put_route(@, Route(dest_key.prefix, owner, dest.next_hops))]
                 ELSE [ribs EXCEPT !.ipv6_rib =
                          put_route(@, Route(dest_key.prefix, owner, dest.next_hops))],
                 Tail(dest_table), owner, my_system_id)

SpfOwner(spf_direction) ==
    IF spf_direction = DIR_NORTH THEN OWNER_N_SPF ELSE OWNER_S_SPF

\* spf_install_routes_in_rib that does not delete the stale routes.
spf_install_routes_in_rib_keeps_stale(ribs, spf_direction, dest_table, my_system_id) ==
    InstallRoutes([ipv4_rib |-> mark_owner_routes_stale(ribs.ipv4_rib, SpfOwner(spf_direction)),
                   ipv6_rib |-> mark_owner_routes_stale(ribs.ipv6_rib, SpfOwner(spf_direction))],
                  dest_table, SpfOwner(spf_direction), my_system_id)

spf_install_routes_in_rib(ribs, spf_direction, dest_table, my_system_id) ==
    LET installed ==
            InstallRoutes(
                [ipv4_rib |-> mark_owner_routes_stale(ribs.ipv4_rib, SpfOwner(spf_direction)),
                 ipv6_rib |-> mark_owner_routes_stale(ribs.ipv6_rib, SpfOwner(spf_direction))],
                dest_table, SpfOwner(spf_direction), my_system_id)
    IN  [ipv4_rib |-> del_stale_routes(installed.ipv4_rib),
         ipv6_rib |-> del_stale_routes(installed.ipv6_rib)]

\* The prefixes of the destination tables: two IPv4 prefixes and one IPv6
\* prefix.
RibPrefixes == << IPv4Prefix("10.0.0.0/8"), IPv4Prefix("0.0.0.0/0"), IPv6Prefix("::/0") >>

\* What a destination table holds for a prefix: nothing, a destination
\* without predecessors, one whose predecessor is this node, and one whose
\* predecessor is system 2 or system 3, which is then its next hop.
RibDestKinds ==
    << {"absent", "local node", "local prefix", "via 2", "via 3"},
       {"absent", "via 2", "via 3"},
       {"absent", "local prefix", "via 2"} >>

RibDest(kind) ==
    CASE kind = "local node" -> SpfDest(<< >>, {})
      [] kind = "local prefix" -> SpfDest(<< 1 >>, {})
      [] kind = "via 2" -> SpfDest(<< 2 >>, {2})
      [] OTHER -> SpfDest(<< 3 >>, {3})

\* The destination table of an SPF run: this node, system 2, and the
\* prefixes in the order in which the run has reached them.
RibDestTable(kinds) ==
    LET RECURSIVE Dests(_)
        Dests(k) == IF k > Len(RibPrefixes) THEN << >>
                    ELSE (IF kinds[k] = "absent" THEN << >>
                          ELSE << << PrefixKey(RibPrefixes[k]), RibDest(kinds[k]) >> >>)
                         \o Dests(k + 1)
    IN  << << NodeKey(1), SpfDest(<< >>, {}) >>, << NodeKey(2), SpfDest(<< 1 >>, {2}) >> >>
        \o Dests(1)

RibDestTables ==
    { RibDestTable(kinds) : kinds \in { ks \in [1..Len(RibPrefixes) -> UNION { RibDestKinds[k] : k \in 1..Len(RibPrefixes) }] :
                                         \A k \in 1..Len(RibPrefixes) : ks[k] \in RibDestKinds[k] } }

SpfInstallRoutesInRib(spf_direction, dest_table) ==
    /\ spf' = spf_install_routes_in_rib(spf, spf_direction, dest_table, system_id[1])
    /\ fn_in' = [spf_direction |-> spf_direction, dest_table |-> dest_table]
    /\ UNCHANGED << fn_out, link_clock >>
    /\ Commit(World)

InitRib ==
    /\ IsWorld(Started(<<NodeConfig(1, LevelInt(1))>>, <<1>>, <<{}>>))
    /\ fn_in = None
    /\ fn_out = None
    /\ link_clock = None
    /\ spf = [ipv4_rib |-> {}, ipv6_rib |-> {}]

NextRib ==
    \E spf_direction \in {DIR_SOUTH, DIR_NORTH} : \E dest_table \in RibDestTables :
        SpfInstallRoutesInRib(spf_direction, dest_table)

SpecRib == InitRib /\ [][NextRib]_vars

\* The routes of an owner in a route table, and the routes that an SPF run
\* with the destination table has to leave there: one for every prefix
\* destination of the address family (ipv4 or not) whose predecessors are
\* neither empty nor this node alone.
RoutesOf(route_table, owner) == { rte \in route_table : rte.owner = owner }

RoutesOfRun(dest_table, owner, ipv4) ==
    { Route(dest_table[k][1].prefix, owner, dest_table[k][2].next_hops) :
        k \in { j \in 1..Len(dest_table) :
                  /\ ~dest_table[j][1].is_node
                  /\ (dest_table[j][1].prefix.ipv4prefix # NoPrefix) = ipv4
                  /\ dest_table[j][2].predecessors # << >>
                  /\ dest_table[j][2].predecessors # << system_id[1] >> } }

\* C34: after spf_install_routes_in_rib for a direction the routes of the
\* owner of that direction in the IPv4 RIB and in the IPv6 RIB are exactly
\* the routes for the prefix destinations of the run whose predecessors are
\* neither empty nor this node alone, none of them stale, and the call
\* leaves the routes of the other owner as they were.
C34_RibHoldsRoutesOfRun ==
    /\ [](fn_in # None
          => /\ RoutesOf(spf.ipv4_rib, SpfOwner(fn_in.spf_direction))
                    = RoutesOfRun(fn_in.dest_table, SpfOwner(fn_in.spf_direction), TRUE)
             /\ RoutesOf(spf.ipv6_rib, SpfOwner(fn_in.spf_direction))
                    = RoutesOfRun(fn_in.dest_table, SpfOwner(fn_in.spf_direction), FALSE))
    /\ [][\A owner \in {OWNER_S_SPF, OWNER_N_SPF} :
             owner # SpfOwner(fn_in'.spf_direction)
             => /\ RoutesOf(spf'.ipv4_rib, owner) = RoutesOf(spf.ipv4_rib, owner)
                /\ RoutesOf(spf'.ipv6_rib, owner) = RoutesOf(spf.ipv6_rib, owner)]_vars

\* The last run, to the south, has found only the IPv6 prefix beyond this
\* node: the IPv4 RIB holds no route of S_SPF any more, but a route of
\* N_SPF, and the IPv6 RIB holds the route of S_SPF.
C34_StaleRoutesDeleted ==
    /\ fn_in # None
    /\ fn_in.spf_direction = DIR_SOUTH
    /\ RoutesOf(spf.ipv4_rib, OWNER_S_SPF) = {}
    /\ RoutesOf(spf.ipv4_rib, OWNER_N_SPF) # {}
    /\ RoutesOf(spf.ipv6_rib, OWNER_S_SPF) = { Route(IPv6Prefix("::/0"), OWNER_S_SPF, {2}) }

(***************************************************************************)
(* SpecDrop: the interface of SpecFlood, on which the failure of either    *)
(* direction is simulated, the one second timer runs, and messages arrive  *)
(* on the LIE port and on the flood port that the receiving code drops.    *)
(***************************************************************************)
DropTIEs ==
    { FloodPacket(FloodTie(tieid, 1), None) :
        tieid \in { TIEID(South, 2, NodeTIEType, MY_TIE_NR),
                    TIEID(North, 1, PrefixTIEType, MY_TIE_NR) } }

\* The messages of the neighbor that are received when nothing is wrong with
\* them: its reflecting LIE, its TIEs, a TIRE and a TIDE.
DropLIE(i) == LIEPacket(2, 2, 1, 1, local_id[i], get_mtu, FALSE, TRUE)

DropFloodMessages ==
    DropTIEs
    \cup { FloodPacket(None, TIREPacket(<< TIEHeader(TIEID(North, 1, NodeTIEType, MY_TIE_NR),
                                                     0, 0) >>)),
           FloodTidePacket(TIDEPacket(MIN_TIE_ID, MAX_TIE_ID, << >>)) }

NoContentPacket == [sender |-> 2, major_version |-> RIFT_MAJOR_VERSION]

\* The messages that are dropped whatever the state of the interface: bytes
\* that do not decode, a packet without content, and the messages of the
\* neighbor with this node as their sender or with another major version.
DroppedMessages(i) ==
    LET sound == {DropLIE(i)} \cup DropFloodMessages IN
    { Undecodable, NoContentPacket }
    \cup { [message EXCEPT !.sender = system_id[intf_node[i]]] : message \in sound }
    \cup { [message EXCEPT !.major_version = RIFT_MAJOR_VERSION + 1] : message \in sound }

\* The messages that arrive and are dropped in the current state.
DroppedNow(i) ==
    DroppedMessages(i)
    \cup (IF rx_fail[i] THEN {DropLIE(i)} \cup DropFloodMessages ELSE {})

SetFailure(i) ==
    /\ ~crashed[intf_node[i]]
    /\ \E tx_failure \in BOOLEAN, rx_failure \in BOOLEAN :
          Finish(set_failure(World, i, tx_failure, rx_failure), intf_node[i])

ReceiveDropTie(i) ==
    /\ ~crashed[intf_node[i]]
    /\ service_queues_timer[i]
    /\ \E message \in DropTIEs :
          Finish(receive_flood_message(World, i, message), intf_node[i])

ReceiveOnLiePort(i) ==
    /\ ~crashed[intf_node[i]]
    /\ Pending(World, intf_node[i]) < MaxPending
    /\ \E message \in DroppedNow(i) \cup DropFloodMessages \cup {DropLIE(i)} :
          Finish(receive_lie_message(World, i, message), intf_node[i])

ReceiveOnFloodPort(i) ==
    /\ ~crashed[intf_node[i]]
    /\ \E message \in DroppedNow(i) \cup {DropLIE(i)} :
          Finish(receive_flood_message(World, i, message), intf_node[i])

NextDrop ==
    \/ \E i \in Intfs(World) : SetFailure(i)
    \/ \E i \in Intfs(World) : ReceiveOnLiePort(i)
    \/ \E i \in Intfs(World) : ReceiveOnFloodPort(i)
    \/ \E i \in Intfs(World) : ReceiveDropTie(i)
    \/ \E i \in Intfs(World) : TimerTick(i)
    \/ \E i \in Intfs(World) : IntfStep(i)
    \/ \E n \in Nodes(World) : NodeStep(n)

SpecDrop == InitFlood /\ [][NextDrop]_vars

\* C35: a message that does not decode, that arrives while the receive
\* failure is simulated, that has this node as its sender, that has no
\* content or that has another major version changes nothing on either port:
\* no event is pushed, the ticks since the last LIE, the TIEs and the four
\* queues stay as they are; so do a TIE, a TIDE or a TIRE on the LIE port and a
\* LIE on the flood port.
C35_DroppedMessagesChangeNothing ==
    \A i \in Intfs(World) :
        /\ \A message \in DroppedNow(i) :
              /\ receive_lie_message(World, i, message) = World
              /\ receive_flood_message(World, i, message) = World
        /\ \A message \in DropFloodMessages :
              receive_lie_message(World, i, message) = World
        /\ receive_flood_message(World, i, DropLIE(i)) = World

\* The receive failure is simulated on an interface in THREE_WAY that has
\* counted a tick since its last LIE, and whose node holds a TIE of the
\* neighbor.
C35_RxFailInThreeWay ==
    \E i \in Intfs(World) :
        /\ rx_fail[i]
        /\ if_state[i] = THREE_WAY
        /\ time_ticks_since_lie_received[i] > 0
        /\ TIEID(South, 2, NodeTIEType, MY_TIE_NR) \in DOMAIN ties[intf_node[i]]

(***************************************************************************)
(* The self-originated Node TIEs and what they describe (Spec).            *)
(***************************************************************************)
\* The self-originated Node TIE of node n for a direction that is stored in
\* the TIE database says what the node and its THREE_WAY interfaces say now.
OwnNodeTieCurrent(n, direction) ==
    LET tieid == TIEID(direction, system_id[n], NodeTIEType, MY_TIE_NR)
        now == NodeTieNeighbors(World, n, None)
    IN  /\ tieid \in DOMAIN ties[n]
        /\ ties[n][tieid].element.level = level_value(World, n)
        /\ DOMAIN ties[n][tieid].element.neighbors = DOMAIN now
        /\ \A sid \in DOMAIN now :
              /\ ties[n][tieid].element.neighbors[sid].level = now[sid].level
              /\ ties[n][tieid].element.neighbors[sid].link_ids = now[sid].link_ids

\* C36: whenever no event is pending, the stored self-originated Node TIEs
\* hold the current level of the node and, for each neighbor of a THREE_WAY
\* interface, its current level and pairs of link ids.
C36_OwnNodeTiesCurrent ==
    \A n \in Nodes(World) :
        (~crashed[n] /\ Pending(World, n) = 0
           /\ \A i \in IntfsOf(World, n) : if_state[i] = THREE_WAY => neighbor[i] # None)
        => \A direction \in {South, North} : OwnNodeTieCurrent(n, direction)

(***************************************************************************)
(* SpecTideTwo: one node with two interfaces, the neighbor of interface i  *)
(* being the system 1 + i at level 2.  Each neighbor sends TIDEs that list *)
(* no TIE, so that a TIDE changes nothing in the database.                 *)
(***************************************************************************)
NeighborSystem(i) == 1 + i

EnvNeighborLie(i) ==
    /\ ~crashed[intf_node[i]]
    /\ Pending(World, intf_node[i]) < MaxPending
    /\ Finish(receive_lie_message(World, i,
                                  LIEPacket(NeighborSystem(i), 2, 1, 1, local_id[i], get_mtu,
                                            FALSE, TRUE)),
              intf_node[i])

EmptyTIDEs == { TIDEPacket(range[1], range[2], << >>) : range \in TideRanges }

ReceiveEmptyTide(i) ==
    \E tide_packet \in EmptyTIDEs :
        ReceiveTideMessage(i, [FloodTidePacket(tide_packet) EXCEPT !.sender = NeighborSystem(i)])

NextTideTwo ==
    \/ \E i \in Intfs(World) : EnvNeighborLie(i)
    \/ \E i \in Intfs(World) : ReceiveEmptyTide(i)
    \/ \E i \in Intfs(World) : IntfStep(i)
    \/ \E n \in Nodes(World) : NodeStep(n)

SpecTideTwo == InitParallel /\ [][NextTideTwo]_vars

\* The TIEs that the node hands to the interface for transmission when it
\* processes the TIDE in the state w.
TideScheduled(w, n, tide_packet) ==
    LET lists == node_process_received_tide_packet(w, n, tide_packet)
    IN  { lists.start_sending_tie_headers[k].tieid :
            k \in 1..Len(lists.start_sending_tie_headers) }

\* C37: with two interfaces in THREE_WAY, the TIEs scheduled for a TIDE of
\* the neighbor of interface a are the same whether or not a TIDE of the
\* neighbor of interface b is processed first, and the TIDE of b leaves the
\* end of the last TIDE as it was.
C37_TideRangePerNeighbor ==
    \A a \in Intfs(World), b \in Intfs(World) :
        (/\ a # b
         /\ intf_node[a] = intf_node[b]
         /\ if_state[a] = THREE_WAY /\ TideReceivable(a)
         /\ if_state[b] = THREE_WAY /\ TideReceivable(b))
        => \A tide_a \in EmptyTIDEs, tide_b \in EmptyTIDEs :
              LET after_b == process_received_tide_packet(World, b, tide_b)
              IN  /\ after_b.last_received_tide_end = last_received_tide_end
                  /\ TideScheduled(after_b, intf_node[a], tide_a)
                        = TideScheduled(World, intf_node[a], tide_a)

(***************************************************************************)
(* The entry action of THREE_WAY.                                          *)
(***************************************************************************)
\* action_start_flooding is the entry action of THREE_WAY, which is entered
\* from TWO_WAY by VALID_REFLECTION only: it runs in the next step of the
\* interface when that event is the oldest of its queue.
StartFloodingRunsNext(i) ==
    /\ ~crashed[intf_node[i]]
    /\ if_state[i] = TWO_WAY
    /\ if_queue[i] # << >>
    /\ Head(if_queue[i]).event = "VALID_REFLECTION"

\* C38: whenever action_start_flooding runs, the interface has a neighbor.
C38_StartFloodingHasNeighbor ==
    \A i \in Intfs(World) : StartFloodingRunsNext(i) => neighbor[i] # None

(***************************************************************************)
(* The Node TIEs of the other nodes at the level of this node.             *)
(***************************************************************************)
\* The TIE-IDs of the stored Node TIEs that other nodes at the level of node
\* n have originated.
OtherNodeTieIdsAtMyLevel(n) ==
    { tie_id \in DOMAIN ties[n] :
        /\ tie_id.tietype = NodeTIEType
        /\ tie_id.originator # system_id[n]
        /\ ties[n][tie_id].element.level = level_value(World, n) }

\* C39: other_node_ties_at_my_level holds exactly the stored Node TIEs that
\* other nodes at the level of this node have originated, none of this node
\* and none that is no longer in the database.
C39_OtherNodeTiesAtMyLevel ==
    \A n \in Nodes(World) :
        ~crashed[n]
        => /\ DOMAIN other_node_ties_at_my_level[n] = OtherNodeTieIdsAtMyLevel(n)
           /\ \A tie_id \in DOMAIN other_node_ties_at_my_level[n] :
                 tie_id \in DOMAIN ties[n]
                 => other_node_ties_at_my_level[n][tie_id] = ties[n][tie_id]

(***************************************************************************)
(* SpecQuiesce: node 1 at level 1 and node 2 at level 2 with one interface *)
(* each on one link that loses no packet.  The LIEs, the TIDEs and the     *)
(* packets of the queue service go from one node to the other.  In every   *)
(* period each timer expires once, in any order: the one second timer and  *)
(* the service queues timer of each interface and the send TIDEs timer of  *)
(* each node.  What a timer brings about (the packets sent and the events  *)
(* they cause) is processed before the next timer expires.  The TIEs do    *)
(* not age.                                                                *)
(***************************************************************************)
QuiesceTimers ==
    { <<"lie", 1>>, <<"lie", 2>>, <<"service", 1>>, <<"service", 2>>,
      <<"tides", 1>>, <<"tides", 2>> }

QuiesceQuiet ==
    /\ \A i \in Intfs(World) :
          if_queue[i] = << >> /\ lie_wire[i] = << >> /\ flood_wire[i] = << >>
    /\ \A n \in Nodes(World) : ztp_queue[n] = << >>

\* What the expiry of the timer does: timer[2] is the interface of the one
\* second timer and of the service queues timer, which expires only while
\* it runs, and the node of the send TIDEs timer.
TimerExpired(w, timer) ==
    IF timer[1] = "lie" THEN one_second_timer_expires(w, timer[2])
    ELSE IF timer[1] = "service"
         THEN IF w.service_queues_timer[timer[2]] THEN service_queues(w, timer[2]) ELSE w
    ELSE send_tides(w, timer[2])

TimerNode(timer) == IF timer[1] = "tides" THEN timer[2] ELSE intf_node[timer[2]]

QuiesceTimer(timer) ==
    /\ ~crashed[TimerNode(timer)]
    /\ timer \notin link_clock.ticked
    /\ QuiesceQuiet
    /\ link_clock' = [link_clock EXCEPT !.ticked =
                         IF @ \cup {timer} = QuiesceTimers THEN {} ELSE @ \cup {timer}]
    /\ UNCHANGED << fn_in, fn_out, spf >>
    /\ Ended(TimerExpired(World, timer), TimerNode(timer))

\* The packet at the head of the wire reaches the flood port of the
\* interface, which is open while the interface is in THREE_WAY.
FloodDelivered(w, i, message) ==
    IF w.service_queues_timer[i] THEN receive_flood_message(w, i, message) ELSE w

DeliverFlood(i) ==
    /\ ~crashed[intf_node[i]]
    /\ flood_wire[i] # << >>
    /\ Finish(FloodDelivered([World EXCEPT !.flood_wire[i] = Tail(@)], i,
                             Head(flood_wire[i])),
              intf_node[i])

InitQuiesce ==
    /\ IsWorld([Started(<<NodeConfig(1, LevelInt(1)), NodeConfig(2, LevelInt(2))>>,
                        <<1, 2>>, <<{2}, {1}>>)
                   EXCEPT !.flood_link = <<{2}, {1}>>])
    /\ fn_in = None
    /\ fn_out = None
    /\ link_clock = [ticked |-> {}, since |-> [i \in {1, 2} |-> NoTicks]]
    /\ spf = None

NextQuiesce ==
    \/ \E timer \in QuiesceTimers : QuiesceTimer(timer)
    \/ \E i \in Intfs(World) : DeliverLie(i)
    \/ \E i \in Intfs(World) : DeliverFlood(i)
    \/ \E i \in Intfs(World) : IntfStep(i)
    \/ \E n \in Nodes(World) : NodeStep(n)

SpecQuiesce == InitQuiesce /\ [][NextQuiesce]_vars

\* Every timer keeps expiring and every process keeps running: the program
\* never stops taking steps.
SpecQuiesceFair == SpecQuiesce /\ []<><<NextQuiesce>>_vars

(***************************************************************************)
(* Properties of SpecQuiesceFair.                                          *)
(***************************************************************************)
FloodQueuesEmpty ==
    \A i \in Intfs(World) :
        /\ ties_tx[i] = << >>
        /\ ties_rtx[i] = << >>
        /\ ties_req[i] = << >>
        /\ ties_ack[i] = << >>

\* The database at the other end of interface i holds every TIE that the
\* node of interface i may flood over it, in a version that is not older.
DatabaseReached(i) ==
    \A j \in flood_link[i] :
        \A tie_id \in DOMAIN ties[intf_node[i]] :
            ~is_flood_filtered(World, i, ties[intf_node[i]][tie_id].header)
            => /\ tie_id \in DOMAIN ties[intf_node[j]]
               /\ compare_tie_header_age(ties[intf_node[j]][tie_id].header,
                                         ties[intf_node[i]][tie_id].header) >= 0

FloodingQuiet ==
    /\ \A n \in Nodes(World) : ~crashed[n]
    /\ \A i \in Intfs(World) :
          if_state[i] = THREE_WAY /\ neighbor[i] # None /\ DatabaseReached(i)
    /\ FloodQueuesEmpty

\* service_queues takes nothing off the queues of the interface.
ServiceKeepsQueues(i) ==
    LET v == service_queues(World, i)
    IN  /\ v.ties_tx = ties_tx
        /\ v.ties_rtx = ties_rtx
        /\ v.ties_req = ties_req
        /\ v.ties_ack = ties_ack

====
